---- MODULE Spec2Model ----
(***************************************************************************)
(* Model of the passcards key handling: SimpleKeyAgent, Vault.readKeyData, *)
(* Vault.unlock / lock / isLocked, Vault.encryptItemData / decryptItemData *)
(* and decryptKey, as found in the onepass module.                         *)
(*                                                                         *)
(* The crypto primitives (pbkdf2, aesCbcEncrypt/Decrypt, openSSLKey,       *)
(* extractSaltAndCipherText, the AgileKeychain item envelope) live in      *)
(* onepass_crypto.  They are modelled as a term algebra: a ciphertext is   *)
(* the term of its key, iv and plaintext; decrypting under the same key    *)
(* and iv gives the plaintext back, decrypting under anything else gives   *)
(* a garbage term that equals no other term.  A term is a tuple whose first *)
(* element names its constructor.                                          *)
(***************************************************************************)
EXTENDS Integers, Sequences, FiniteSets, TLC

\* ------------------------------------------------------------------ bounds

\* number of entries in the persisted encryptionKeys.js list
MaxEntries == 2

\* ------------------------------------------------------- program constants

KEY_LEN == 32
AES_KEY_LEN == 16

\* --------------------------------------------------------------- domains

Passwords == {"pA", "pB"}
Levels == {"SL3", "SL4", "SL5"}
Messages == {"", "m"}
Salts == {"s1", "s2"}
AES128_OpenSSLKey == "AES128_OpenSSLKey"
Algos == {AES128_OpenSSLKey, "other"}
\* the master password the vault's keys are wrapped under; any other is wrong
MasterPassword == "pA"
\* how an entry of the key file was produced: wrapped under the master
\* password, or with a validation blob that does not belong to the wrapped key
EntryKinds == {"good", "corrupt"}
KeySalt == "abcd"
ValidationSalt == "vsalt"
Iterations == 1000
\* an identifier no entry of the key file has
UnknownId == MaxEntries + 1
EntryIds == 1..MaxEntries

\* ------------------------------------------------------ crypto primitives

RawKey(i) == <<"raw", i>>

Msg(m) == <<"msg", m>>

NoValue == <<"none">>

BoolValue(b) == <<"bool", b>>

pbkdf2(pwd, salt, iterCount, keyLen) == <<"pbkdf2", pwd, salt, iterCount, keyLen>>

substring(str, from, to) == <<"substring", str, from, to>>

aesCbcEncrypt(key, plainText, iv) == <<"aes", key, iv, plainText>>

aesCbcDecrypt(key, cipherText, iv) ==
  IF cipherText[1] = "aes" /\ cipherText[2] = key /\ cipherText[3] = iv
  THEN cipherText[4]
  ELSE <<"garbage", key, iv, cipherText>>

openSSLKey(password, salt) ==
  [key |-> <<"osslkey", password, salt>>, iv |-> <<"ossliv", password, salt>>]

\* the 'Salted__' + salt + ciphertext envelope
saltedEnvelope(salt, cipherText) == <<"salted", salt, cipherText>>

extractSaltAndCipherText(input) == [salt |-> input[2], cipherText |-> input[3]]

JunkData == saltedEnvelope("junk", <<"junk">>)

btoa(x) == <<"b64", x>>

atob(x) == x[2]

encryptAgileKeychainItemData(key, plainText, salt) ==
  LET keyParams == openSSLKey(key, salt)
  IN  saltedEnvelope(salt, aesCbcEncrypt(keyParams.key, plainText, keyParams.iv))

decryptAgileKeychainItemData(key, cipherText) ==
  LET saltCipher == extractSaltAndCipherText(cipherText)
      keyParams  == openSSLKey(key, saltCipher.salt)
  IN  aesCbcDecrypt(keyParams.key, saltCipher.cipherText, keyParams.iv)

\* ------------------------------------------------------------ decryptKey

\* decryptKey without the comparison against the validation blob
decryptKeyUnchecked(masterPwd, encryptedKey, salt, iterCount, validation) ==
  LET derivedKey   == pbkdf2(masterPwd, salt, iterCount, KEY_LEN)
      aesKey       == substring(derivedKey, 0, AES_KEY_LEN)
      iv           == substring(derivedKey, AES_KEY_LEN, KEY_LEN)
  IN  [threw |-> FALSE, key |-> aesCbcDecrypt(aesKey, encryptedKey, iv)]

\* decryptKey validating against the derived key instead of the decrypted key
decryptKeyDerivedKey(masterPwd, encryptedKey, salt, iterCount, validation) ==
  LET derivedKey   == pbkdf2(masterPwd, salt, iterCount, KEY_LEN)
      aesKey       == substring(derivedKey, 0, AES_KEY_LEN)
      iv           == substring(derivedKey, AES_KEY_LEN, KEY_LEN)
      decryptedKey == aesCbcDecrypt(aesKey, encryptedKey, iv)
      validationSaltCipher == extractSaltAndCipherText(validation)
      keyParams    == openSSLKey(derivedKey, validationSaltCipher.salt)
      decryptedValidation ==
        aesCbcDecrypt(keyParams.key, validationSaltCipher.cipherText, keyParams.iv)
  IN  IF decryptedValidation # decryptedKey
      THEN [threw |-> TRUE, key |-> NoValue]
      ELSE [threw |-> FALSE, key |-> decryptedKey]

decryptKey(masterPwd, encryptedKey, salt, iterCount, validation) ==
  LET derivedKey   == pbkdf2(masterPwd, salt, iterCount, KEY_LEN)
      aesKey       == substring(derivedKey, 0, AES_KEY_LEN)
      iv           == substring(derivedKey, AES_KEY_LEN, KEY_LEN)
      decryptedKey == aesCbcDecrypt(aesKey, encryptedKey, iv)
      validationSaltCipher == extractSaltAndCipherText(validation)
      keyParams    == openSSLKey(decryptedKey, validationSaltCipher.salt)
      decryptedValidation ==
        aesCbcDecrypt(keyParams.key, validationSaltCipher.cipherText, keyParams.iv)
  IN  IF decryptedValidation # decryptedKey
      THEN [threw |-> TRUE, key |-> NoValue]
      ELSE [threw |-> FALSE, key |-> decryptedKey]

\* ------------------------------------------------ the persisted key file

\* the wrapped-key blob of entry i, wrapped under password pwd
WrappedKey(i, pwd) ==
  LET derivedKey == pbkdf2(pwd, KeySalt, Iterations, KEY_LEN)
  IN  saltedEnvelope(KeySalt,
        aesCbcEncrypt(substring(derivedKey, 0, AES_KEY_LEN), RawKey(i),
                      substring(derivedKey, AES_KEY_LEN, KEY_LEN)))

\* the validation blob of raw key i
ValidationBlob(i) ==
  LET keyParams == openSSLKey(RawKey(i), ValidationSalt)
  IN  saltedEnvelope(ValidationSalt,
        aesCbcEncrypt(keyParams.key, RawKey(i), keyParams.iv))

\* entry i of encryptionKeys.js, as JSON (data and validation base64-encoded)
PersistedEntry(i, level, kind) ==
  [data       |-> btoa(WrappedKey(i, MasterPassword)),
   identifier |-> i,
   iterations |-> Iterations,
   level      |-> level,
   validation |-> btoa(IF kind = "corrupt" THEN JunkData ELSE ValidationBlob(i))]

KeyLists ==
  UNION { { [i \in 1..n |-> PersistedEntry(i, lv[i], kd[i])] :
              lv \in [1..n -> Levels], kd \in [1..n -> EntryKinds] } :
          n \in 0..MaxEntries }

\* the parsed content of encryptionKeys.js: with or without a `list` entry
KeyFiles ==
  { [hasList |-> TRUE, list |-> l] : l \in KeyLists } \cup
  { [hasList |-> FALSE, list |-> <<>>] }

\* ----------------------------------------------------------------- state

VARIABLES
  keyFile,      \* parsed data/default/encryptionKeys.js
  keys,         \* Vault.keys: the settled promise for the loaded entries
  agentKeys,    \* SimpleKeyAgent.keys, in insertion order
  lockedSince,  \* history: lock() was called and no unlock() has succeeded since
  lastOp,       \* the operation that completed last, and its outcome
  itemStore,        \* local_store: the persisted 'items' object store
  itemIndex,        \* Store.itemIndex: the Cached<OverviewMap> and its load in flight
  items,            \* the item_store.Item objects the callers hold, by uuid
  saveTask,         \* per item: the Store.saveItem call in progress, or its outcome
  indexUpdateQueue, \* Store.indexUpdateQueue: the pushes waiting for a flush
  flushTask,        \* the Store.updateIndex call of the flush that is running
  revisionWrites,   \* itemStore.set('revisions/..') calls in flight
  listTask,         \* the Store.listItems call in progress, or its outcome
  onItemUpdated,    \* the items published on Store.onItemUpdated, in order
  syncTask,         \* per item: the Store.setLastSyncedRevision call in progress
  loadTask,         \* the last Store.loadItem(uuid, revision) call and its outcome
  mergeCase,        \* an updateIndex merge on given arguments, and its result
  storeHist,        \* history of the store: what the properties refer back to
  keyStore,         \* local_store: the key entries of the 'keys' object store
  unlockTask,       \* the Store.unlock call in progress, or its outcome
  onUnlock,         \* the number of events published on Store.onUnlock
  rpcId,            \* rpc: RpcHandler.id of the calling handler
  rpcPending,       \* rpc: RpcHandler.pending of the calling handler
  timers,           \* rpc: the reply timers that are set, with their deadlines
  clock,            \* rpc: the time, in ms since the handlers were constructed
  port,             \* rpc: the rpc-call and rpc-reply messages in flight
  handlers,         \* rpc: RpcHandler.handlers of the handler that is called
  doneLater,        \* rpc: the done() functions async handlers have kept
  rpcHist,          \* rpc: history of the calls made, callbacks run, replies sent
  overlapSave,      \* a second Store.saveItem call in flight on the Item object of a
  heldSync,         \* an older Item object of a, and setLastSyncedRevision called on it
  vaultFiles,       \* onepass Vault: contents.js and the item files of the vault
  vaultSave         \* onepass Vault: per item, the Vault.saveItem call in progress

vaultVars == <<keyFile, keys, lockedSince, lastOp>>

unlockVars == <<keyStore, unlockTask, onUnlock>>

rpcVars == <<rpcId, rpcPending, timers, clock, port, handlers, doneLater, rpcHist>>

\* calls on Item objects that other calls share
jointVars == <<overlapSave, heldSync>>

\* the file-backed vault
fileVars == <<vaultFiles, vaultSave>>

\* the state next to the item store and its keys
netVars == <<rpcVars, jointVars, fileVars>>

\* the state of the parts next to the item store
otherVars == <<unlockVars, netVars>>

callVars == <<syncTask, loadTask, mergeCase, otherVars>>

storeVars == <<itemStore, itemIndex, items, saveTask, indexUpdateQueue, flushTask,
               revisionWrites, listTask, onItemUpdated, callVars, storeHist>>

\* the state of the item store alone
itemVars == <<itemStore, itemIndex, items, saveTask, indexUpdateQueue, flushTask,
              revisionWrites, listTask, onItemUpdated, syncTask, loadTask, mergeCase,
              storeHist>>

vars == <<keyFile, keys, agentKeys, lockedSince, lastOp, storeVars>>

\* ------------------------------------------------------- SimpleKeyAgent

HasKey(table, id) == \E n \in 1..Len(table) : table[n].id = id

KeyOf(table, id) == table[CHOOSE n \in 1..Len(table) : table[n].id = id].key

\* addKey pushing a new entry even when the id is already registered
addKeyAppending(table, id, key) == Append(table, [id |-> id, key |-> key])

addKey(table, id, key) ==
  IF HasKey(table, id)
  THEN [n \in 1..Len(table) |->
          IF table[n].id = id THEN [id |-> id, key |-> key] ELSE table[n]]
  ELSE Append(table, [id |-> id, key |-> key])

listKeys(table) == [n \in 1..Len(table) |-> table[n].id]

forgetKeys(table) == <<>>

\* decrypt using the first registered key instead of the key of `id`
agentDecryptFirstKey(table, id, cipherText, algo) ==
  IF ~HasKey(table, id) THEN [err |-> "NoSuchKey", val |-> NoValue]
  ELSE IF algo = AES128_OpenSSLKey
       THEN [err |-> "none",
             val |-> decryptAgileKeychainItemData(table[1].key, cipherText)]
       ELSE [err |-> "UnknownAlgorithm", val |-> NoValue]

agentDecrypt(table, id, cipherText, algo) ==
  IF ~HasKey(table, id) THEN [err |-> "NoSuchKey", val |-> NoValue]
  ELSE IF algo = AES128_OpenSSLKey
       THEN [err |-> "none",
             val |-> decryptAgileKeychainItemData(KeyOf(table, id), cipherText)]
       ELSE [err |-> "UnknownAlgorithm", val |-> NoValue]

\* encrypt looking at the algorithm before it looks for the key
agentEncryptAlgoFirst(table, id, plainText, algo, salt) ==
  IF algo # AES128_OpenSSLKey THEN [err |-> "UnknownAlgorithm", val |-> NoValue]
  ELSE IF ~HasKey(table, id) THEN [err |-> "NoSuchKey", val |-> NoValue]
       ELSE [err |-> "none",
             val |-> encryptAgileKeychainItemData(KeyOf(table, id), plainText, salt)]

agentEncrypt(table, id, plainText, algo, salt) ==
  IF ~HasKey(table, id) THEN [err |-> "NoSuchKey", val |-> NoValue]
  ELSE IF algo = AES128_OpenSSLKey
       THEN [err |-> "none",
             val |-> encryptAgileKeychainItemData(KeyOf(table, id), plainText, salt)]
       ELSE [err |-> "UnknownAlgorithm", val |-> NoValue]

\* ------------------------------------------------------------------ Vault

EncryptionKeyEntry(entry) ==
  [data       |-> atob(entry.data),
   identifier |-> entry.identifier,
   iterations |-> entry.iterations,
   level      |-> entry.level,
   validation |-> atob(entry.validation)]

readKeyData(file) ==
  IF ~file.hasList
  THEN [state |-> "rejected", value |-> <<>>]
  ELSE [state |-> "fulfilled",
        value |-> SelectSeq([n \in 1..Len(file.list) |-> EncryptionKeyEntry(file.list[n])],
                            LAMBDA item : item.level # "SL3")]

\* the forEach of Vault.unlock from entry n on: stops at the first entry whose
\* decryptKey throws, with the keys added so far left in the table
RECURSIVE unlockFrom(_, _, _, _)
unlockFrom(keyEntries, n, pwd, table) ==
  IF n > Len(keyEntries) THEN [err |-> "none", table |-> table]
  ELSE LET item       == keyEntries[n]
           saltCipher == extractSaltAndCipherText(item.data)
           key        == decryptKey(pwd, saltCipher.cipherText, saltCipher.salt,
                                    item.iterations, item.validation)
       IN  IF key.threw
           THEN [err |-> "FailedToDecryptKey", table |-> table]
           ELSE unlockFrom(keyEntries, n + 1, pwd,
                           addKey(table, item.identifier, key.key))

\* unlock resolving although decryptKey threw for an entry
unlockSwallowingErrors(keysPromise, pwd, table) ==
  IF keysPromise.state = "rejected"
  THEN [err |-> "MissingList", table |-> table]
  ELSE [err |-> "none", table |-> unlockFrom(keysPromise.value, 1, pwd, table).table]

unlock(keysPromise, pwd, table) ==
  IF keysPromise.state = "rejected"
  THEN [err |-> "MissingList", table |-> table]
  ELSE unlockFrom(keysPromise.value, 1, pwd, table)

\* isLocked answering true only when no entry is registered
isLockedAllAbsent(keyIDs, keyEntries) ==
  /\ Len(keyEntries) > 0
  /\ \A n \in 1..Len(keyEntries) :
       \A k \in 1..Len(keyIDs) : keyIDs[k] # keyEntries[n].identifier

isLocked(keyIDs, keyEntries) ==
  \E n \in 1..Len(keyEntries) :
     \A k \in 1..Len(keyIDs) : keyIDs[k] # keyEntries[n].identifier

\* the forEach of decryptItemData / encryptItemData: every entry whose level
\* matches overwrites `result`, so the last one stands; NoValue for undefined
RECURSIVE matchingKey(_, _, _, _)
matchingKey(keyEntries, n, level, result) ==
  IF n > Len(keyEntries) THEN result
  ELSE matchingKey(keyEntries, n + 1, level,
                   IF keyEntries[n].level = level
                   THEN [found |-> TRUE, id |-> keyEntries[n].identifier]
                   ELSE result)

\* the key lookup taking the first loaded entry whatever its level
keyForLevelFirst(keyEntries, level) ==
  IF Len(keyEntries) > 0
  THEN [found |-> TRUE, id |-> keyEntries[1].identifier]
  ELSE [found |-> FALSE, id |-> UnknownId]

keyForLevel(keyEntries, level) ==
  matchingKey(keyEntries, 1, level, [found |-> FALSE, id |-> UnknownId])

decryptItemData(keysPromise, table, level, data) ==
  IF keysPromise.state = "rejected" THEN [err |-> "MissingList", val |-> NoValue]
  ELSE LET result == keyForLevel(keysPromise.value, level)
       IN  IF result.found
           THEN agentDecrypt(table, result.id, data, AES128_OpenSSLKey)
           ELSE [err |-> "NoKeyForLevel", val |-> NoValue]

encryptItemData(keysPromise, table, level, data, salt) ==
  IF keysPromise.state = "rejected" THEN [err |-> "MissingList", val |-> NoValue]
  ELSE LET result == keyForLevel(keysPromise.value, level)
       IN  IF result.found
           THEN agentEncrypt(table, result.id, data, AES128_OpenSSLKey, salt)
           ELSE [err |-> "NoKeyForLevel", val |-> NoValue]

\* ------------------------------------------------- local store: the data

\* saveItem calls made on the store
MaxSaves == 2

\* setLastSyncedRevision calls made on the store
MaxSyncs == 1

Uuids == {"a", "b"}
Titles == {"t1", "t2"}
Contents == {"c1", "c2"}

\* item_store.ItemType of a login, and of the item that marks a deletion
TypeNames == {"login", "system.Tombstone"}

\* item_store.ChangeSource
Sources == {"Local", "Sync"}

\* a time that is null
NullTime == 0 - 1

\* the salt the key agent draws for the store's encrypt calls
StoreSalt == "s1"

\* the key saved in the store's 'keys' object store, as Store.unlock decrypts it
StoreKeyId == 1

\* an Item that was never saved: no timestamps (0), no revision
NewItem ==
  [title |-> "t1", content |-> "c1", typeName |-> "login", createdAt |-> 0,
   updatedAt |-> 0, revision |-> NoValue, parentRevision |-> NoValue]

\* no saveItem call was made yet
IdleSave ==
  [pc |-> "idle", outcome |-> "none", n |-> 0, source |-> "-", prev |-> NoValue,
   key |-> UnknownId, indexUpdated |-> "none", revisionSaved |-> "none"]

IdleFlush ==
  [pc |-> "idle", batch |-> <<>>, overviewMap |-> <<>>, aliased |-> FALSE,
   lastSyncEntries |-> <<>>, data |-> NoValue, before |-> <<>>]

\* no setLastSyncedRevision call was made yet
IdleSync ==
  [pc |-> "idle", outcome |-> "none", n |-> 0, revision |-> NoValue, entry |-> NoValue]

\* no loadItem(uuid, revision) call was made yet
IdleLoad ==
  [uuid |-> "-", revision |-> NoValue, outcome |-> "none", item |-> NoValue]

\* no merge was computed
NoMerge ==
  [overviewMap |-> <<>>, updatedItems |-> <<>>, lastSyncEntries |-> <<>>,
   done |-> FALSE, result |-> NoValue]

\* item_store.ListItemsOptions when the caller gives none
DefaultListOptions == [includeTombstones |-> FALSE]

IdleList == [pc |-> "idle", outcome |-> "none", result |-> {}, afterRelock |-> FALSE,
             loaderInvoked |-> FALSE, opts |-> DefaultListOptions]

\* Cached<OverviewMap>: nothing cached, no load in flight
EmptyCache ==
  [cached |-> NoValue, load |-> "idle", key |-> UnknownId, result |-> NoValue,
   waiters |-> {}]

NoHistory ==
  [phase |-> "fresh", loaderSinceLock |-> FALSE, saved |-> {}, calls |-> 0,
   syncs |-> 0]

\* no Store.unlock call was made yet
IdleUnlock == [pc |-> "idle", pwd |-> "-", outcome |-> "none", n |-> 0, keys |-> <<>>]

\* no key is saved, no unlock was called, nothing was published on onUnlock
UnlockIdle ==
  /\ keyStore = <<>>
  /\ unlockTask = IdleUnlock
  /\ onUnlock = 0

\* two RpcHandlers were constructed on the ends of a port: no call was made,
\* no handler registered
RpcIdle ==
  /\ rpcId = 1
  /\ rpcPending = <<>>
  /\ timers = {}
  /\ clock = 0
  /\ port = [calls |-> <<>>, replies |-> <<>>]
  /\ handlers = <<>>
  /\ doneLater = {}
  /\ rpcHist = [calls |-> <<>>, invoked |-> <<>>, emitted |-> <<>>]

\* no second saveItem call on the Item object of a
IdleOverlap ==
  [pc |-> "idle", outcome |-> "none", n |-> 0, key |-> UnknownId, data |-> NoValue,
   made |-> NoValue]

\* nobody holds an older Item object
IdleHeld ==
  [item |-> NoValue, pc |-> "idle", outcome |-> "none", n |-> 0, entry |-> NoValue]

JointIdle ==
  /\ overlapSave = IdleOverlap
  /\ heldSync = IdleHeld

\* no Vault.saveItem call was made yet
IdleVaultSave ==
  [n |-> 0, itemSaved |-> "none", overviewSaved |-> "none", content |-> "idle",
   contents |-> "idle", file |-> NoValue, entries |-> <<>>, outcome |-> "none"]

\* a vault without items: contents.js holds no entry, there is no item file
FilesIdle ==
  /\ vaultFiles = [contents |-> <<>>, items |-> <<>>]
  /\ vaultSave = [u \in Uuids |-> IdleVaultSave]

NetIdle ==
  /\ RpcIdle
  /\ JointIdle
  /\ FilesIdle

ItemsIdle ==
  /\ itemStore = [index |-> NoValue, revisions |-> <<>>, lastSynced |-> <<>>]
  /\ itemIndex = EmptyCache
  /\ items = [u \in Uuids |-> NewItem]
  /\ saveTask = [u \in Uuids |-> IdleSave]
  /\ indexUpdateQueue = <<>>
  /\ flushTask = IdleFlush
  /\ revisionWrites = {}
  /\ listTask = IdleList
  /\ onItemUpdated = <<>>
  /\ syncTask = [u \in Uuids |-> IdleSync]
  /\ loadTask = IdleLoad
  /\ mergeCase = NoMerge
  /\ storeHist = NoHistory

\* the store and what is next to it right after construction
StoreIdle ==
  /\ ItemsIdle
  /\ UnlockIdle
  /\ NetIdle

\* ---------------------------------------------------------------- actions

Op(op, pwd, id, algo, level, data, err, val, pre) ==
  [op |-> op, pwd |-> pwd, id |-> id, algo |-> algo, level |-> level,
   data |-> data, err |-> err, val |-> val, pre |-> pre]

NoOp == Op("none", "-", UnknownId, "-", "-", NoValue, "none", NoValue, <<>>)

\* the ciphertexts handed to decrypt for key i: every item envelope the raw
\* key of entry i can produce, and one that nothing produced
DataFor(i) ==
  { encryptAgileKeychainItemData(RawKey(i), Msg(m), s) : m \in Messages, s \in Salts }
    \cup {JunkData}

VaultInit ==
  /\ keyFile \in KeyFiles
  /\ keys = readKeyData(keyFile)
  /\ agentKeys = <<>>
  /\ lockedSince = FALSE
  /\ lastOp = NoOp
  /\ StoreIdle

Unlock(pwd) ==
  LET r == unlock(keys, pwd, agentKeys)
  IN  /\ agentKeys' = r.table
      /\ lockedSince' = (lockedSince /\ r.err # "none")
      /\ lastOp' = Op("unlock", pwd, UnknownId, "-", "-", NoValue,
                      r.err, NoValue, agentKeys)
      /\ UNCHANGED <<keyFile, keys, storeVars>>

Lock ==
  /\ agentKeys' = forgetKeys(agentKeys)
  /\ lockedSince' = TRUE
  /\ lastOp' = Op("lock", "-", UnknownId, "-", "-", NoValue,
                  "none", NoValue, agentKeys)
  /\ UNCHANGED <<keyFile, keys, storeVars>>

\* isLocked() reads listKeys() when it is called, so its answer is that of the
\* key table at the call
IsLocked ==
  /\ lastOp' =
       IF keys.state = "rejected"
       THEN Op("isLocked", "-", UnknownId, "-", "-", NoValue,
               "MissingList", NoValue, agentKeys)
       ELSE Op("isLocked", "-", UnknownId, "-", "-", NoValue,
               "none", BoolValue(isLocked(listKeys(agentKeys), keys.value)), agentKeys)
  /\ UNCHANGED <<keyFile, keys, agentKeys, lockedSince, storeVars>>

AgentEncrypt(id, m, algo, salt) ==
  LET r == agentEncrypt(agentKeys, id, Msg(m), algo, salt)
  IN  /\ lastOp' = Op("encrypt", "-", id, algo, "-", Msg(m), r.err, r.val, agentKeys)
      /\ UNCHANGED <<keyFile, keys, agentKeys, lockedSince, storeVars>>

AgentDecrypt(id, data, algo) ==
  LET r == agentDecrypt(agentKeys, id, data, algo)
  IN  /\ lastOp' = Op("decrypt", "-", id, algo, "-", data, r.err, r.val, agentKeys)
      /\ UNCHANGED <<keyFile, keys, agentKeys, lockedSince, storeVars>>

EncryptItemData(level, m, salt) ==
  LET r == encryptItemData(keys, agentKeys, level, Msg(m), salt)
  IN  /\ lastOp' = Op("encryptItemData", "-", UnknownId, "-", level, Msg(m),
                      r.err, r.val, agentKeys)
      /\ UNCHANGED <<keyFile, keys, agentKeys, lockedSince, storeVars>>

DecryptItemData(level, data) ==
  LET r == decryptItemData(keys, agentKeys, level, data)
  IN  /\ lastOp' = Op("decryptItemData", "-", UnknownId, "-", level, data,
                      r.err, r.val, agentKeys)
      /\ UNCHANGED <<keyFile, keys, agentKeys, lockedSince, storeVars>>

VaultNext ==
  \/ \E pwd \in Passwords : Unlock(pwd)
  \/ Lock
  \/ IsLocked
  \/ \E id \in EntryIds \cup {UnknownId}, m \in Messages, algo \in Algos, salt \in Salts :
       /\ algo = AES128_OpenSSLKey \/ (m = "" /\ salt = "s1")
       /\ AgentEncrypt(id, m, algo, salt)
  \/ \E id \in EntryIds \cup {UnknownId}, algo \in Algos :
       \E data \in DataFor(id) :
         /\ algo = AES128_OpenSSLKey \/ data = JunkData
         /\ AgentDecrypt(id, data, algo)
  \/ \E level \in Levels, m \in Messages, salt \in Salts : EncryptItemData(level, m, salt)
  \/ \E level \in Levels :
       \E data \in {JunkData} \cup
                    UNION { DataFor(keyFile.list[n].identifier) :
                              n \in { k \in 1..Len(keyFile.list) : keyFile.list[k].level = level } } :
         DecryptItemData(level, data)

VaultSpec == VaultInit /\ [][VaultNext]_vars

\* ------------------------------------------------------------ properties

AgentIds == { agentKeys[n].id : n \in 1..Len(agentKeys) }

IdsOf(table) == { table[n].id : n \in 1..Len(table) }

\* identifiers of the entries of encryptionKeys.js
PersistedIds == { keyFile.list[n].identifier : n \in 1..Len(keyFile.list) }

\* identifiers of the entries the vault loaded (the file's entries minus SL3)
LoadedIds == { keys.value[n].identifier : n \in 1..Len(keys.value) }

\* the candidate raw key: the wrapped key of `item` decrypted under `pwd`
CandidateKey(pwd, item) ==
  LET saltCipher == extractSaltAndCipherText(item.data)
      derivedKey == pbkdf2(pwd, saltCipher.salt, item.iterations, KEY_LEN)
  IN  aesCbcDecrypt(substring(derivedKey, 0, AES_KEY_LEN), saltCipher.cipherText,
                    substring(derivedKey, AES_KEY_LEN, KEY_LEN))

\* the validation blob of `item` decrypts, under the key/iv derived from
\* `candidate`, to `candidate` itself
Validates(candidate, item) ==
  LET saltCipher == extractSaltAndCipherText(item.validation)
      keyParams  == openSSLKey(candidate, saltCipher.salt)
  IN  aesCbcDecrypt(keyParams.key, saltCipher.cipherText, keyParams.iv) = candidate

\* derivation or validation of some loaded entry fails under `pwd`
SomeEntryFails(pwd) ==
  /\ keys.state = "fulfilled"
  /\ \E n \in 1..Len(keys.value) : ~Validates(CandidateKey(pwd, keys.value[n]), keys.value[n])

\* C1: when derivation/validation fails for at least one entry, unlock(password)
\* fails and the key table afterwards is exactly the table before the attempt.
C1_UnlockAtomicOnFailure ==
  (lastOp.op = "unlock" /\ SomeEntryFails(lastOp.pwd))
    => (lastOp.err = "FailedToDecryptKey" /\ agentKeys = lastOp.pre)

\* C2: every key held in the key table belongs to a loaded entry, is the key
\* derived from that entry's wrapped key under some password, and is the key
\* that entry's validation blob decrypts to.
C2_OnlyValidatedKeys ==
  \A n \in 1..Len(agentKeys) :
    /\ keys.state = "fulfilled"
    /\ \E k \in 1..Len(keys.value), pwd \in Passwords :
         /\ keys.value[k].identifier = agentKeys[n].id
         /\ agentKeys[n].key = CandidateKey(pwd, keys.value[k])
         /\ Validates(agentKeys[n].key, keys.value[k])

\* C2 witness: an unlock has registered the keys of two entries and an encrypt
\* or decrypt call has been made since.
C2_Witness ==
  /\ Len(agentKeys) >= 2
  /\ lastOp.op \in {"encrypt", "decrypt"}
  /\ lastOp.err = "none"

\* an entry of the key file whose validation blob belongs to its wrapped key
WellFormed(entry) == entry.validation = btoa(ValidationBlob(entry.identifier))

DecryptKeyOf(pwd, item) ==
  LET saltCipher == extractSaltAndCipherText(item.data)
  IN  decryptKey(pwd, saltCipher.cipherText, saltCipher.salt, item.iterations,
                 item.validation)

\* C3: for an entry wrapped under the master password, decryptKey with that
\* password returns the raw key, and with any other password it throws.
C3_DeriveAndValidate ==
  \A n \in 1..Len(keyFile.list) :
    WellFormed(keyFile.list[n]) =>
      \A pwd \in Passwords :
        LET item == EncryptionKeyEntry(keyFile.list[n])
            r    == DecryptKeyOf(pwd, item)
        IN  IF pwd = MasterPassword
            THEN ~r.threw /\ r.key = RawKey(item.identifier)
            ELSE r.threw /\ ~Validates(CandidateKey(pwd, item), item)

\* C3 witness: after an unlock with the master password registered a key, an
\* unlock with another password has failed on a well-formed entry.
C3_Witness ==
  /\ lastOp.op = "unlock"
  /\ lastOp.pwd # MasterPassword
  /\ lastOp.err = "FailedToDecryptKey"
  /\ Len(lastOp.pre) >= 1
  /\ WellFormed(keyFile.list[1])

\* what the vault answers to isLocked() in this state
IsLockedNow == isLocked(listKeys(agentKeys), keys.value)

C6_UnlockIdempotent ==
  (lastOp.op = "unlock" /\ lastOp.err = "none" /\ LoadedIds \subseteq IdsOf(lastOp.pre))
    => agentKeys = lastOp.pre

\* C6 witness: a second successful unlock of a vault with two registered keys.
C6_Witness ==
  /\ lastOp.op = "unlock"
  /\ lastOp.err = "none"
  /\ Len(lastOp.pre) = 2
  /\ LoadedIds \subseteq IdsOf(lastOp.pre)

\* every encrypt and decrypt call on the key agent fails with no-such-key
AllCryptoFails ==
  \A id \in EntryIds \cup {UnknownId}, algo \in Algos :
    /\ \A m \in Messages, salt \in Salts :
         agentEncrypt(agentKeys, id, Msg(m), algo, salt).err = "NoSuchKey"
    /\ \A data \in DataFor(id) :
         agentDecrypt(agentKeys, id, data, algo).err = "NoSuchKey"

\* C7: after lock() the key agent lists no key, a vault with at least one key
\* entry is locked, and until the next successful unlock every encrypt and
\* decrypt call fails with no-such-key.
C7_LockClearsUntilUnlock ==
  /\ lastOp.op = "lock"
       => /\ listKeys(agentKeys) = <<>>
          /\ (keys.state = "fulfilled" /\ Len(keys.value) >= 1) => IsLockedNow
  /\ lockedSince => AllCryptoFails
  /\ (lockedSince /\ lastOp.op \in {"encrypt", "decrypt"}) => lastOp.err = "NoSuchKey"

\* C8: encrypt and decrypt fail with no-such-key for an id that is not in the
\* key table, whatever the algorithm, and with unknown-algorithm for a known
\* id and an unrecognized algorithm; the key table is unchanged and nothing is
\* returned.
C8_CryptoErrors ==
  lastOp.op \in {"encrypt", "decrypt"} =>
    /\ lastOp.id \notin IdsOf(lastOp.pre) => lastOp.err = "NoSuchKey"
    /\ (lastOp.id \in IdsOf(lastOp.pre) /\ lastOp.algo # AES128_OpenSSLKey)
         => lastOp.err = "UnknownAlgorithm"
    /\ lastOp.err # "none" => (lastOp.val = NoValue /\ agentKeys = lastOp.pre)

\* C8 witness: encrypt was called with a registered id and an unrecognized
\* algorithm.
C8_Witness ==
  /\ lastOp.op = "encrypt"
  /\ lastOp.id \in AgentIds
  /\ lastOp.algo # AES128_OpenSSLKey
  /\ lastOp.err = "UnknownAlgorithm"

EntriesAtLevel(level) == { n \in 1..Len(keys.value) : keys.value[n].level = level }

\* C10: decryptItemData and encryptItemData answer what the key agent answers
\* for the identifier of a loaded entry whose level is the requested one, and
\* fail with no-key-for-level when no loaded entry has that level, as for
\* every request for SL3.
C10_ItemDataDelegation ==
  (lastOp.op \in {"decryptItemData", "encryptItemData"} /\ keys.state = "fulfilled") =>
    /\ EntriesAtLevel(lastOp.level) = {}
         => (lastOp.err = "NoKeyForLevel" /\ lastOp.val = NoValue)
    /\ lastOp.level = "SL3" => lastOp.err = "NoKeyForLevel"
    /\ EntriesAtLevel(lastOp.level) # {} =>
         \E n \in EntriesAtLevel(lastOp.level) :
           LET id == keys.value[n].identifier
           IN  IF lastOp.op = "decryptItemData"
               THEN [err |-> lastOp.err, val |-> lastOp.val]
                      = agentDecrypt(lastOp.pre, id, lastOp.data, AES128_OpenSSLKey)
               ELSE \E salt \in Salts :
                      [err |-> lastOp.err, val |-> lastOp.val]
                        = agentEncrypt(lastOp.pre, id, lastOp.data, AES128_OpenSSLKey, salt)

\* C10 witness: decryptItemData answered a message through the second of two
\* loaded entries of different levels.
C10_Witness ==
  /\ lastOp.op = "decryptItemData"
  /\ lastOp.err = "none"
  /\ lastOp.val = Msg("m")
  /\ Len(keys.value) = 2
  /\ keys.value[1].level # keys.value[2].level
  /\ lastOp.level = keys.value[2].level

\* =========================================================================
\* local_store.Store: the revision-tracked encrypted item store
\* =========================================================================

\* ----------------------------------------------- collaborators of the store

\* a value that is present where NoValue stands for null
Some(value) == <<"some", value>>

\* JSON.stringify / JSON.parse: parsing anything but a JSON text throws
JSONstringify(value) == <<"json", value>>

JSONparse(text) ==
  IF text[1] = "json" THEN [threw |-> FALSE, val |-> text[2]]
  ELSE [threw |-> TRUE, val |-> NoValue]

\* item_store.Item.updateTimestamps: updatedAt is set to now, createdAt too
\* when the item has none
updateTimestamps(item, now) ==
  [item EXCEPT !.updatedAt = now,
               !.createdAt = IF item.createdAt = 0 THEN now ELSE item.createdAt]

\* item_store.generateRevisionId: a digest of the item's overview fields, with
\* the parent revision, and of its content
generateRevisionId(item, content) ==
  <<"rev", item.title, item.typeName, item.updatedAt, item.createdAt,
    item.parentRevision, content>>

\* item_store.Item.isTombstone
isTombstone(item) == item.typeName = "system.Tombstone"

\* cached.Cached.clear: the value in memory is dropped, a load in flight is
\* not cancelled
cachedClear(cache) == [cache EXCEPT !.cached = NoValue]

\* Cached.set storing the value although the writer failed
cachedSetAlways(cache, value, written) == [cache EXCEPT !.cached = Some(value)]

\* cached.Cached.set, once the writer has settled: the cache takes the value
\* only when the writer succeeded
cachedSet(cache, value, written) ==
  IF written THEN [cache EXCEPT !.cached = Some(value)] ELSE cache

\* BatchedUpdateQueue.push adding to the batch of the flush that is running
pushIntoRunning(pending, flush, entry) ==
  IF flush.pc = "idle"
  THEN [pending |-> Append(pending, entry), flush |-> flush]
  ELSE [pending |-> pending, flush |-> [flush EXCEPT !.batch = Append(@, entry)]]

\* collectionutil.BatchedUpdateQueue.push: the update joins the pending batch,
\* never the batch of a flush that has begun
push(pending, flush, entry) ==
  [pending |-> Append(pending, entry), flush |-> flush]

\* ------------------------------------------------------------------- Store

overviewFromItem(item) ==
  [title          |-> item.title,
   updatedAt      |-> item.updatedAt,
   createdAt      |-> item.createdAt,
   typeName       |-> item.typeName,
   revision       |-> item.revision,
   parentRevision |-> item.parentRevision]

itemFromOverview(uuid, overview) ==
  [uuid           |-> uuid,
   title          |-> overview.title,
   updatedAt      |-> overview.updatedAt,
   createdAt      |-> overview.createdAt,
   typeName       |-> overview.typeName,
   revision       |-> overview.revision,
   parentRevision |-> overview.parentRevision]

overviewKey(table) ==
  IF Len(listKeys(table)) < 1
  THEN [err |-> "VaultLocked", key |-> UnknownId]
  ELSE [err |-> "none", key |-> listKeys(table)[1]]

keyForItem(table, item) == overviewKey(table)

storeEncrypt(table, key, data) ==
  agentEncrypt(table, key, JSONstringify(data), AES128_OpenSSLKey, StoreSalt)

storeDecrypt(table, key, data) ==
  LET decrypted == agentDecrypt(table, key, data, AES128_OpenSSLKey)
  IN  IF decrypted.err # "none" THEN decrypted
      ELSE LET parsed == JSONparse(decrypted.val)
           IN  IF parsed.threw THEN [err |-> "SyntaxError", val |-> NoValue]
               ELSE [err |-> "none", val |-> parsed.val]

\* Store.unlock once key_agent.decryptKeys has returned the saved key: the
\* key is added to the agent
storeUnlock(table) == addKey(table, StoreKeyId, RawKey(StoreKeyId))

\* saveItem without the assertions of the Sync branch
saveItemCheckUnasserted(item, source, now) ==
  IF source # "Sync"
  THEN [threw |-> FALSE, item |-> updateTimestamps(item, now)]
  ELSE [threw |-> FALSE, item |-> item]

\* the synchronous head of saveItem: the timestamps of a local change, the
\* assertions of a synced one
saveItemCheck(item, source, now) ==
  IF source # "Sync"
  THEN [threw |-> FALSE, item |-> updateTimestamps(item, now)]
  ELSE [threw |-> item.createdAt = 0 \/ item.updatedAt = 0, item |-> item]

\* saveItem setting item.parentRevision from item.revision after it has set
\* the new revision
saveItemRevisionOwnParent(item, content) ==
  LET newRevision == [item EXCEPT !.revision = generateRevisionId(item, content)]
      revised     == [newRevision EXCEPT !.parentRevision = newRevision.revision]
  IN  [item     |-> revised,
       revision |-> [parentRevision |-> revised.parentRevision,
                     overview       |-> overviewFromItem(revised),
                     content        |-> content]]

\* saveItem computing the revision id before it moves item.revision to
\* item.parentRevision
saveItemRevisionStaleParent(item, content) ==
  LET revised == [item EXCEPT !.revision = generateRevisionId(item, content),
                              !.parentRevision = item.revision]
  IN  [item     |-> revised,
       revision |-> [parentRevision |-> revised.parentRevision,
                     overview       |-> overviewFromItem(revised),
                     content        |-> content]]

\* the continuation of saveItem that receives the content: the item's new
\* parentRevision and revision, and the ItemRevision to persist
saveItemRevision(item, content) ==
  LET parented == [item EXCEPT !.parentRevision = item.revision]
      revised  == [parented EXCEPT !.revision = generateRevisionId(parented, content)]
  IN  [item     |-> revised,
       revision |-> [parentRevision |-> revised.parentRevision,
                     overview       |-> overviewFromItem(revised),
                     content        |-> content]]

\* saveItem storing the revision under the key of its parent
revisionKeyOfParent(item) == item.parentRevision

\* the key 'revisions/' + item.revision the blob is stored under
revisionKey(item) == item.revision

\* saveItem waiting for the revision blob only
saveItemSettledBlobOnly(indexUpdated, revisionSaved) ==
  IF revisionSaved = "failed" THEN "failed"
  ELSE IF revisionSaved = "ok" THEN "ok"
  ELSE "pending"

\* Q.all([indexUpdated, revisionSaved]): rejected as soon as one is, fulfilled
\* when both are
saveItemSettled(indexUpdated, revisionSaved) ==
  IF indexUpdated = "failed" \/ revisionSaved = "failed" THEN "failed"
  ELSE IF indexUpdated = "ok" /\ revisionSaved = "ok" THEN "ok"
  ELSE "pending"

\* saveItem publishing the item however the save ended
publishAlways(stream, item, settled) == Append(stream, item)

\* the last continuation of saveItem runs when the save was fulfilled
publishItemUpdated(stream, item, settled) ==
  IF settled = "ok" THEN Append(stream, item) ELSE stream

\* Store.getLastSyncEntries: the lastSynced/<id> entry of each id, null for an
\* id that has none
getLastSyncEntries(store, ids) ==
  [i \in DOMAIN ids |->
     IF ids[i] \in DOMAIN store.lastSynced THEN Some(store.lastSynced[ids[i]])
     ELSE NoValue]

\* updateIndex taking a missing lastSynced entry as a null time
lastSyncTimesOrNull(entries) ==
  [i \in DOMAIN entries |->
     IF entries[i] # NoValue THEN entries[i][2].timestamp ELSE NullTime]

\* the lastSyncTimes of updateIndex: the timestamp of each entry, 0 where
\* there is none
lastSyncTimes(entries) ==
  [i \in DOMAIN entries |->
     IF entries[i] # NoValue THEN entries[i][2].timestamp ELSE 0]

\* updateIndex setting the first of the updated items only
mergeUpdatesFirstOnly(overviewMap, updatedItems, times, n) ==
  IF n > Len(updatedItems) THEN [threw |-> FALSE, overviewMap |-> overviewMap]
  ELSE LET item  == updatedItems[n]
           entry == [lastSyncedAt |-> times[n]] @@ overviewFromItem(item)
       IN  [threw |-> entry.lastSyncedAt = NullTime,
            overviewMap |-> IF entry.lastSyncedAt = NullTime THEN overviewMap
                            ELSE (item.uuid :> entry) @@ overviewMap]

\* updateIndex keeping the entry of the first push of an item
RECURSIVE mergeUpdatesFirstWins(_, _, _, _)
mergeUpdatesFirstWins(overviewMap, updatedItems, times, n) ==
  IF n > Len(updatedItems) THEN [threw |-> FALSE, overviewMap |-> overviewMap]
  ELSE LET item  == updatedItems[n]
           entry == [lastSyncedAt |-> times[n]] @@ overviewFromItem(item)
           first == \A i \in 1..(n - 1) : updatedItems[i].uuid # item.uuid
       IN  IF entry.lastSyncedAt = NullTime
           THEN [threw |-> TRUE, overviewMap |-> overviewMap]
           ELSE mergeUpdatesFirstWins(IF first THEN (item.uuid :> entry) @@ overviewMap
                                      ELSE overviewMap,
                                      updatedItems, times, n + 1)

\* the forEach of updateIndex from update n on: the entry of each updated
\* item, computed from the Item object as it is now and the time of its
\* lastSynced entry, replaces the one in the map; the assertion throws on a
\* null time and leaves the map as it was set so far
RECURSIVE mergeUpdates(_, _, _, _)
mergeUpdates(overviewMap, updatedItems, times, n) ==
  IF n > Len(updatedItems) THEN [threw |-> FALSE, overviewMap |-> overviewMap]
  ELSE LET item  == updatedItems[n]
           entry == [lastSyncedAt |-> times[n]] @@ overviewFromItem(item)
       IN  IF entry.lastSyncedAt = NullTime
           THEN [threw |-> TRUE, overviewMap |-> overviewMap]
           ELSE mergeUpdates((item.uuid :> entry) @@ overviewMap, updatedItems,
                             times, n + 1)

\* the Item objects of the pushes of a batch, as they are now
updatedItemsOf(batch, itemObjects) ==
  [i \in DOMAIN batch |->
     [uuid |-> batch[i].uuid] @@
       (IF batch[i].by = "heldSync" THEN heldSync.item[2]
        ELSE itemObjects[batch[i].uuid])]

\* the uuids of the pushes of a batch
updatedItemIds(batch) == [i \in DOMAIN batch |-> batch[i].uuid]

\* Store.readItemIndex once itemStore.get('index') has returned
readItemIndex(table, key, encryptedItemIndex) ==
  IF encryptedItemIndex # NoValue
  THEN storeDecrypt(table, key, encryptedItemIndex)
  ELSE [err |-> "none", val |-> <<>>]

\* Cached.get invoking the loader again while a load is in flight
cachedGetReloading(cache, who, loaderStart) ==
  IF cache.cached # NoValue THEN [state |-> "hit", cache |-> cache]
  ELSE IF loaderStart.err # "none"
       THEN [state |-> "rejected", cache |-> cache]
       ELSE [state |-> "wait",
             cache |-> [cache EXCEPT !.load = "read", !.key = loaderStart.key,
                                     !.result = NoValue, !.waiters = {who}]]

\* cached.Cached.get for caller `who`; loaderStart is what the head of the
\* loader (readItemIndex: overviewKey) answers if it is invoked now
cachedGet(cache, who, loaderStart) ==
  IF cache.cached # NoValue THEN [state |-> "hit", cache |-> cache]
  ELSE IF cache.load # "idle"
       THEN [state |-> "wait", cache |-> [cache EXCEPT !.waiters = @ \cup {who}]]
       ELSE IF loaderStart.err # "none"
            THEN [state |-> "rejected", cache |-> cache]
            ELSE [state |-> "wait",
                  cache |-> [cache EXCEPT !.load = "read", !.key = loaderStart.key,
                                          !.waiters = {who}]]

\* the push of call n of saveItem, or of setLastSyncedRevision, on item uuid
pushOf(by, uuid, n) == [uuid |-> uuid, n |-> n, by |-> by]

\* the futures of the pushes of `batch` settle: the saveItem calls that still
\* wait for them see `status`
settlePushes(tasks, batch, status) ==
  [u \in Uuids |->
     IF /\ tasks[u].pc = "writing"
        /\ \E i \in 1..Len(batch) : batch[i] = pushOf("saveItem", u, tasks[u].n)
     THEN [tasks[u] EXCEPT !.indexUpdated = status]
     ELSE tasks[u]]

\* the same for the setLastSyncedRevision calls, whose future is the future
\* of their push
settleSyncs(tasks, batch, status) ==
  [u \in Uuids |->
     IF /\ tasks[u].pc = "pushed"
        /\ \E i \in 1..Len(batch) :
             batch[i] = pushOf("setLastSyncedRevision", u, tasks[u].n)
     THEN [tasks[u] EXCEPT !.pc = "idle", !.outcome = status]
     ELSE tasks[u]]

\* setLastSyncedRevision without its assertion
setLastSyncedEntryUnasserted(item, revision) ==
  [threw |-> FALSE,
   entry |-> Some([revision |-> revision, timestamp |-> item.updatedAt])]

\* Store.setLastSyncedRevision(item, revision), up to its itemStore.set: the
\* assertion that revision is the item's, then the LastSyncEntry to store
setLastSyncedEntry(item, revision) ==
  IF item.revision # revision
  THEN [threw |-> TRUE, entry |-> NoValue]
  ELSE [threw |-> FALSE,
        entry |-> Some([revision |-> revision, timestamp |-> item.updatedAt])]

\* Store.getLastSyncedRevision(item): the revision of lastSynced/<uuid>, or
\* null
getLastSyncedRevision(store, uuid) ==
  IF uuid \in DOMAIN store.lastSynced THEN store.lastSynced[uuid].revision
  ELSE NoValue

\* Store.lastSyncTimestamps(), once itemIndex.get() has returned overviewMap
lastSyncTimestamps(overviewMap) ==
  [id \in DOMAIN overviewMap |-> overviewMap[id].lastSyncedAt]

\* listItems leaving the tombstones out whatever the options say
listedItemsLiveOnly(overviewMap, opts) ==
  { item \in { itemFromOverview(key, overviewMap[key]) : key \in DOMAIN overviewMap } :
      ~isTombstone(item) }

\* listItems keeping the tombstones whatever the options say
listedItemsAll(overviewMap, opts) ==
  { itemFromOverview(key, overviewMap[key]) : key \in DOMAIN overviewMap }

\* Store.listItems(opts): the items of the index's entries, the tombstones
\* left out unless opts.includeTombstones
listedItems(overviewMap, opts) ==
  { item \in { itemFromOverview(key, overviewMap[key]) : key \in DOMAIN overviewMap } :
      ~isTombstone(item) \/ opts.includeTombstones }

\* loadItem giving the item the revision it was asked for as its parent
loadItemRevisionAsParent(table, store, uuid, revision) ==
  LET key       == overviewKey(table)
      data      == IF revision \in DOMAIN store.revisions THEN store.revisions[revision]
                   ELSE NoValue
      decrypted == storeDecrypt(table, key.key, data)
  IN  IF key.err # "none" THEN [err |-> key.err, item |-> NoValue]
      ELSE IF decrypted.err # "none" THEN [err |-> decrypted.err, item |-> NoValue]
           ELSE [err  |-> "none",
                 item |-> Some([itemFromOverview(uuid, decrypted.val.overview)
                                  EXCEPT !.parentRevision = revision])]

\* Store.loadItem(uuid, revision): the ItemRevision stored under
\* 'revisions/' + revision is decrypted and an Item is built from its overview
\* and its parentRevision
loadItemRevision(table, store, uuid, revision) ==
  LET key       == overviewKey(table)
      data      == IF revision \in DOMAIN store.revisions THEN store.revisions[revision]
                   ELSE NoValue
      decrypted == storeDecrypt(table, key.key, data)
  IN  IF key.err # "none" THEN [err |-> key.err, item |-> NoValue]
      ELSE IF decrypted.err # "none" THEN [err |-> decrypted.err, item |-> NoValue]
           ELSE [err  |-> "none",
                 item |-> Some([itemFromOverview(uuid, decrypted.val.overview)
                                  EXCEPT !.parentRevision =
                                           decrypted.val.parentRevision])]

\* Store.loadItem(uuid) once its listItems() has returned `listed`: the item
\* of that uuid, or the rejection 'No such item'
loadItemFromList(listed, uuid) ==
  LET matches == { item \in listed : item.uuid = uuid }
  IN  IF matches # {}
      THEN [err |-> "none", item |-> Some(CHOOSE item \in matches : TRUE)]
      ELSE [err |-> "NoSuchItem", item |-> NoValue]

\* ---------------------------------------------------- updateIndex, alone

\* the items of one updateIndex call
MaxBatch == 3

\* an Item object of uuid with the given title, as its saveItem left it
SavedObject(uuid, title) ==
  [uuid |-> uuid] @@
  saveItemRevision(updateTimestamps([NewItem EXCEPT !.title = title], 1), "c1").item

\* the Item objects callers may hold: more than one per uuid, since loadItem
\* and listItems build a new object at every call
ItemObjects == { SavedObject(uuid, title) : uuid \in Uuids, title \in Titles }

\* the arrays of updated items a flush may hand to updateIndex
UpdatedItems == UNION { [1..n -> ItemObjects] : n \in 1..MaxBatch }

\* a lastSynced/<uuid> entry written for object item
LastSyncEntry(item, timestamp) == [revision |-> item.revision, timestamp |-> timestamp]

\* what the store may hold under lastSynced/: per uuid no entry, the entry of a
\* saved item, or one written for an item without updatedAt
LastSyncedTables ==
  { [u \in held |-> LastSyncEntry(SavedObject(u, "t1"), IF u \in nulls THEN NullTime ELSE 1)] :
      held \in SUBSET Uuids, nulls \in SUBSET Uuids }

\* the maps the index may hold before the merge
OverviewMaps ==
  { <<>>,
    ("a" :> ([lastSyncedAt |-> 0] @@ overviewFromItem(SavedObject("a", "t1")))) }

\* updateIndex from the results of its two reads to the map it hands to
\* itemIndex.set
UpdateIndexMerge(overviewMap, updatedItems, lastSynced) ==
  /\ ~mergeCase.done
  /\ LET entries == getLastSyncEntries([lastSynced |-> lastSynced],
                                       updatedItemIds(updatedItems))
     IN  mergeCase' = [overviewMap     |-> overviewMap,
                       updatedItems    |-> updatedItems,
                       lastSyncEntries |-> entries,
                       done            |-> TRUE,
                       result          |-> mergeUpdates(overviewMap, updatedItems,
                                                        lastSyncTimes(entries), 1)]
  /\ UNCHANGED <<vaultVars, otherVars, agentKeys, itemStore, itemIndex, items, saveTask,
                 indexUpdateQueue, flushTask, revisionWrites, listTask, onItemUpdated,
                 syncTask, loadTask, storeHist>>

MergeNext ==
  \E overviewMap \in OverviewMaps, updatedItems \in UpdatedItems,
     lastSynced \in LastSyncedTables :
    UpdateIndexMerge(overviewMap, updatedItems, lastSynced)

\* ---------------------------------------------------------- store actions

StoreInit ==
  /\ keyFile = [hasList |-> FALSE, list |-> <<>>]
  /\ keys = readKeyData(keyFile)
  /\ agentKeys = <<>>
  /\ lockedSince = FALSE
  /\ lastOp = NoOp
  /\ StoreIdle

\* Store.unlock
StoreUnlock ==
  /\ agentKeys' = storeUnlock(agentKeys)
  /\ storeHist' = [storeHist EXCEPT
                     !.phase = IF storeHist.phase = "locked" THEN "reopened" ELSE @]
  /\ UNCHANGED <<vaultVars, callVars, itemStore, itemIndex, items, saveTask, indexUpdateQueue,
                 flushTask, revisionWrites, listTask, onItemUpdated>>

\* keyAgent.forgetKeys: the keys go, the lock event reaches the listener the
\* constructor registered, which clears the index cache
StoreLock ==
  /\ agentKeys' = forgetKeys(agentKeys)
  /\ itemIndex' = cachedClear(itemIndex)
  /\ flushTask' = [flushTask EXCEPT !.aliased = FALSE]
  /\ storeHist' = [storeHist EXCEPT !.phase = "locked", !.loaderSinceLock = FALSE]
  /\ UNCHANGED <<vaultVars, callVars, itemStore, items, saveTask, indexUpdateQueue,
                 revisionWrites, listTask, onItemUpdated>>

\* the caller edits the item between two saves
EditItem(u, title, content) ==
  /\ saveTask[u].pc = "idle"
  /\ storeHist.calls < MaxSaves
  /\ <<title, content>> # <<items[u].title, items[u].content>>
  /\ items' = [items EXCEPT ![u].title = title, ![u].content = content]
  /\ UNCHANGED <<vaultVars, callVars, agentKeys, itemStore, itemIndex, saveTask, indexUpdateQueue,
                 flushTask, revisionWrites, listTask, onItemUpdated, storeHist>>

\* the caller removes the item: it becomes a tombstone, to be saved
\* setLastSyncedRevision(item, revision) is called for the Item object of u:
\* the assertion, then itemStore.set of 'lastSynced/' + uuid is issued
SetLastSyncedCall(u, revision) ==
  /\ syncTask[u].pc = "idle"
  /\ storeHist.syncs < MaxSyncs
  /\ items[u].revision # NoValue
  /\ LET call == setLastSyncedEntry(items[u], revision)
         made == [IdleSync EXCEPT !.n = syncTask[u].n + 1, !.revision = revision]
     IN  syncTask' = [syncTask EXCEPT ![u] =
                        IF call.threw
                        THEN [made EXCEPT !.outcome = "threw"]
                        ELSE [made EXCEPT !.pc = "storing", !.entry = call.entry]]
  /\ storeHist' = [storeHist EXCEPT !.syncs = @ + 1]
  /\ UNCHANGED <<vaultVars, otherVars, loadTask, mergeCase, agentKeys, itemStore, itemIndex, items,
                 saveTask, indexUpdateQueue, flushTask, revisionWrites, listTask,
                 onItemUpdated>>

\* the write of lastSynced/<uuid> lands and the item is pushed on the index
\* update queue, or the write fails and setLastSyncedRevision is rejected
LastSyncedWritten(u, written) ==
  /\ syncTask[u].pc = "storing"
  /\ LET q == push(indexUpdateQueue, flushTask,
                   pushOf("setLastSyncedRevision", u, syncTask[u].n))
     IN  IF written
         THEN /\ itemStore' = [itemStore EXCEPT !.lastSynced =
                                 (u :> syncTask[u].entry[2]) @@ @]
              /\ indexUpdateQueue' = q.pending
              /\ flushTask' = q.flush
              /\ syncTask' = [syncTask EXCEPT ![u].pc = "pushed"]
         ELSE /\ syncTask' = [syncTask EXCEPT ![u].pc = "idle", ![u].outcome = "failed"]
              /\ UNCHANGED <<itemStore, indexUpdateQueue, flushTask>>
  /\ UNCHANGED <<vaultVars, otherVars, loadTask, mergeCase, agentKeys, itemIndex, items, saveTask,
                 revisionWrites, listTask, onItemUpdated, storeHist>>

RemoveItem(u) ==
  /\ saveTask[u].pc = "idle"
  /\ storeHist.calls < MaxSaves
  /\ ~isTombstone(items[u])
  /\ items' = [items EXCEPT ![u].typeName = "system.Tombstone"]
  /\ UNCHANGED <<vaultVars, callVars, agentKeys, itemStore, itemIndex, saveTask,
                 indexUpdateQueue, flushTask, revisionWrites, listTask, onItemUpdated,
                 storeHist>>

\* Store.loadItem(uuid, revision) with a revision
LoadItemRevision(u, revision) ==
  /\ LET loaded == loadItemRevision(agentKeys, itemStore, u, revision)
     IN  loadTask' = [uuid     |-> u,
                      revision |-> revision,
                      outcome  |-> IF loaded.err = "none" THEN "ok" ELSE "failed",
                      item     |-> loaded.item]
  /\ UNCHANGED <<vaultVars, otherVars, agentKeys, itemStore, itemIndex, items, saveTask,
                 indexUpdateQueue, flushTask, revisionWrites, listTask, onItemUpdated,
                 syncTask, mergeCase, storeHist>>

\* saveItem(item, source) up to item.getContent()
SaveCall(u, source, now) ==
  /\ saveTask[u].pc = "idle"
  /\ storeHist.calls < MaxSaves
  /\ storeHist' = [storeHist EXCEPT !.calls = @ + 1]
  /\ LET check == saveItemCheck(items[u], source, now)
         key   == keyForItem(agentKeys, check.item)
         call  == [IdleSave EXCEPT !.n = saveTask[u].n + 1, !.source = source,
                                   !.prev = items[u].revision]
     IN  IF check.threw
         THEN /\ saveTask' = [saveTask EXCEPT ![u] = [call EXCEPT !.outcome = "threw"]]
              /\ UNCHANGED items
         ELSE /\ items' = [items EXCEPT ![u] = check.item]
              /\ saveTask' = [saveTask EXCEPT ![u] =
                   IF key.err # "none"
                   THEN [call EXCEPT !.outcome = "failed"]
                   ELSE [call EXCEPT !.pc = "content", !.key = key.key]]
  /\ UNCHANGED <<vaultVars, callVars, agentKeys, itemStore, itemIndex, indexUpdateQueue,
                 flushTask, revisionWrites, listTask, onItemUpdated>>

\* the content arrives (or its fetch fails): the revision is computed and
\* encrypted, the item is pushed on the index update queue and the write of
\* revisions/<revision> is issued
SaveContent(u, fetched) ==
  /\ saveTask[u].pc = "content"
  /\ LET r         == saveItemRevision(items[u], items[u].content)
         encrypted == storeEncrypt(agentKeys, saveTask[u].key, r.revision)
         q         == push(indexUpdateQueue, flushTask,
                           pushOf("saveItem", u, saveTask[u].n))
     IN  IF ~fetched
         THEN /\ saveTask' = [saveTask EXCEPT ![u].pc = "idle", ![u].outcome = "failed"]
              /\ UNCHANGED <<items, indexUpdateQueue, flushTask, revisionWrites>>
         ELSE /\ items' = [items EXCEPT ![u] = r.item]
              /\ IF encrypted.err # "none"
                 THEN /\ saveTask' = [saveTask EXCEPT ![u].pc = "idle",
                                                      ![u].outcome = "failed"]
                      /\ UNCHANGED <<indexUpdateQueue, flushTask, revisionWrites>>
                 ELSE /\ saveTask' = [saveTask EXCEPT ![u].pc = "writing",
                                                      ![u].indexUpdated = "pending",
                                                      ![u].revisionSaved = "pending"]
                      /\ indexUpdateQueue' = q.pending
                      /\ flushTask' = q.flush
                      /\ revisionWrites' = revisionWrites \cup
                           {[uuid |-> u, n |-> saveTask[u].n,
                             revision |-> revisionKey(r.item), data |-> encrypted.val]}
  /\ UNCHANGED <<vaultVars, callVars, agentKeys, itemStore, itemIndex, listTask, onItemUpdated,
                 storeHist>>

\* an itemStore.set('revisions/<revision>') lands, or fails
RevisionWritten(w, written) ==
  /\ w \in revisionWrites
  /\ revisionWrites' = revisionWrites \ {w}
  /\ itemStore' = IF written
                  THEN [itemStore EXCEPT !.revisions = (w.revision :> w.data) @@ @]
                  ELSE itemStore
  /\ saveTask' = [saveTask EXCEPT ![w.uuid] =
       IF @.pc = "writing" /\ @.n = w.n
       THEN [@ EXCEPT !.revisionSaved = IF written THEN "ok" ELSE "failed"]
       ELSE @]
  /\ UNCHANGED <<vaultVars, callVars, agentKeys, itemIndex, items, indexUpdateQueue, flushTask,
                 listTask, onItemUpdated, storeHist>>

\* Q.all has settled: the last continuation of saveItem publishes the item,
\* or the rejection reaches the caller
SaveSettle(u) ==
  /\ saveTask[u].pc = "writing"
  /\ LET settled == saveItemSettled(saveTask[u].indexUpdated, saveTask[u].revisionSaved)
         saved   == itemFromOverview(u, overviewFromItem(items[u]))
     IN  /\ settled # "pending"
         /\ onItemUpdated' = publishItemUpdated(onItemUpdated, saved, settled)
         /\ saveTask' = [saveTask EXCEPT ![u].pc = "idle", ![u].outcome = settled]
         /\ storeHist' =
              IF settled = "ok"
              THEN [storeHist EXCEPT !.saved = @ \cup
                      {[uuid |-> u, n |-> saveTask[u].n, prev |-> saveTask[u].prev,
                        revision |-> items[u].revision,
                        overview |-> overviewFromItem(items[u]),
                        content |-> items[u].content]}]
              ELSE storeHist
  /\ UNCHANGED <<vaultVars, callVars, agentKeys, itemStore, itemIndex, items, indexUpdateQueue,
                 flushTask, revisionWrites, listTask>>

\* the flush of the index update queue begins: the pending batch is taken and
\* updateIndex asks the cache for the index
FlushBegin ==
  /\ flushTask.pc = "idle"
  /\ indexUpdateQueue # <<>>
  /\ indexUpdateQueue' = <<>>
  /\ LET got == cachedGet(itemIndex, "flush", overviewKey(agentKeys))
     IN  /\ itemIndex' = got.cache
         /\ storeHist' = [storeHist EXCEPT !.loaderSinceLock =
                            @ \/ (itemIndex.cached = NoValue /\ itemIndex.load = "idle")]
         /\ IF got.state = "rejected"
            THEN /\ flushTask' = IdleFlush
                 /\ saveTask' = settlePushes(saveTask, indexUpdateQueue, "failed")
                 /\ syncTask' = settleSyncs(syncTask, indexUpdateQueue, "failed")
            ELSE /\ flushTask' =
                      LET begun == [IdleFlush EXCEPT
                                      !.batch = indexUpdateQueue,
                                      !.lastSyncEntries =
                                         getLastSyncEntries(itemStore,
                                                            updatedItemIds(indexUpdateQueue))]
                      IN  IF got.state = "hit"
                          THEN [begun EXCEPT !.pc = "merge",
                                             !.overviewMap = itemIndex.cached[2],
                                             !.before = itemIndex.cached[2],
                                             !.aliased = TRUE]
                          ELSE [begun EXCEPT !.pc = "get"]
                 /\ UNCHANGED <<saveTask, syncTask>>
  /\ UNCHANGED <<vaultVars, otherVars, loadTask, mergeCase, agentKeys, itemStore, items,
                 revisionWrites, listTask, onItemUpdated>>

\* updateIndex has the index and the last-sync entries (read when the flush
\* began, or as late as now): the entries of the batch are set in the map it
\* was given (the object the cache holds, unless the cache was cleared since)
\* and itemIndex.set encrypts the map
FlushMerge ==
  /\ flushTask.pc = "merge"
  /\ \E entries \in {flushTask.lastSyncEntries,
                      getLastSyncEntries(itemStore, updatedItemIds(flushTask.batch))} :
       LET merge     == mergeUpdates(flushTask.overviewMap,
                                     updatedItemsOf(flushTask.batch, items),
                                     lastSyncTimes(entries), 1)
           merged    == merge.overviewMap
           key       == overviewKey(agentKeys)
           encrypted == storeEncrypt(agentKeys, key.key, merged)
           shared    == IF flushTask.aliased /\ itemIndex.cached # NoValue
                        THEN [itemIndex EXCEPT !.cached = Some(merged)]
                        ELSE itemIndex
       IN  /\ itemIndex' = shared
           /\ IF merge.threw \/ key.err # "none" \/ encrypted.err # "none"
              THEN /\ flushTask' = IdleFlush
                   /\ saveTask' = settlePushes(saveTask, flushTask.batch, "failed")
                   /\ syncTask' = settleSyncs(syncTask, flushTask.batch, "failed")
              ELSE /\ flushTask' = [flushTask EXCEPT !.pc = "write",
                                                     !.overviewMap = merged,
                                                     !.data = encrypted.val]
                   /\ UNCHANGED <<saveTask, syncTask>>
  /\ UNCHANGED <<vaultVars, otherVars, loadTask, mergeCase, agentKeys, itemStore, items,
                 indexUpdateQueue, revisionWrites, listTask, onItemUpdated, storeHist>>

\* itemStore.set('index') lands, or fails: Cached.set and the futures of the
\* batch settle with it
FlushWrite(written) ==
  /\ flushTask.pc = "write"
  /\ itemStore' = IF written THEN [itemStore EXCEPT !.index = flushTask.data]
                  ELSE itemStore
  /\ itemIndex' = cachedSet(itemIndex, flushTask.overviewMap, written)
  /\ saveTask' = settlePushes(saveTask, flushTask.batch,
                              IF written THEN "ok" ELSE "failed")
  /\ syncTask' = settleSyncs(syncTask, flushTask.batch,
                             IF written THEN "ok" ELSE "failed")
  /\ flushTask' = IdleFlush
  /\ UNCHANGED <<vaultVars, otherVars, loadTask, mergeCase, agentKeys, items, indexUpdateQueue, revisionWrites,
                 listTask, onItemUpdated, storeHist>>

\* the loader's itemStore.get('index') returns and the index is decrypted; a
\* failure reaches every get() that waits for the load
LoadRead ==
  /\ itemIndex.load = "read"
  /\ LET r  == readItemIndex(agentKeys, itemIndex.key, itemStore.index)
         ok == r.err = "none"
     IN  /\ itemIndex' = IF ok THEN [itemIndex EXCEPT !.load = "loaded",
                                                      !.result = Some(r.val)]
                         ELSE [EmptyCache EXCEPT !.cached = itemIndex.cached]
         /\ flushTask' = IF "flush" \in itemIndex.waiters /\ ~ok THEN IdleFlush
                         ELSE flushTask
         /\ saveTask' = IF "flush" \in itemIndex.waiters /\ ~ok
                        THEN settlePushes(saveTask, flushTask.batch, "failed")
                        ELSE saveTask
         /\ syncTask' = IF "flush" \in itemIndex.waiters /\ ~ok
                        THEN settleSyncs(syncTask, flushTask.batch, "failed")
                        ELSE syncTask
         /\ listTask' = IF "list" \in itemIndex.waiters /\ ~ok
                        THEN [listTask EXCEPT !.pc = "idle", !.outcome = "failed"]
                        ELSE listTask
  /\ UNCHANGED <<vaultVars, otherVars, loadTask, mergeCase, agentKeys, itemStore, items,
                 indexUpdateQueue, revisionWrites, onItemUpdated, storeHist>>

\* the loader's result reaches the cache, which keeps it and hands it to every
\* get() that waited for it
LoadDone ==
  /\ itemIndex.load = "loaded"
  /\ itemIndex' = [EmptyCache EXCEPT !.cached = itemIndex.result]
  /\ flushTask' = IF "flush" \in itemIndex.waiters
                  THEN [flushTask EXCEPT !.pc = "merge",
                                         !.overviewMap = itemIndex.result[2],
                                         !.before = itemIndex.result[2],
                                         !.aliased = TRUE]
                  ELSE flushTask
  /\ listTask' = IF "list" \in itemIndex.waiters
                 THEN [listTask EXCEPT !.pc = "idle", !.outcome = "ok",
                                       !.result = listedItems(itemIndex.result[2],
                                                             listTask.opts)]
                 ELSE listTask
  /\ UNCHANGED <<vaultVars, callVars, agentKeys, itemStore, items, saveTask, indexUpdateQueue,
                 revisionWrites, onItemUpdated, storeHist>>

\* Store.listItems
ListItemsCall(opts) ==
  /\ listTask.pc = "idle"
  /\ LET got  == cachedGet(itemIndex, "list", overviewKey(agentKeys))
         call == [IdleList EXCEPT !.afterRelock = (storeHist.phase = "reopened"),
                                  !.loaderInvoked = storeHist'.loaderSinceLock,
                                  !.opts = opts]
     IN  /\ itemIndex' = got.cache
         /\ storeHist' = [storeHist EXCEPT !.loaderSinceLock =
                            @ \/ (itemIndex.cached = NoValue /\ itemIndex.load = "idle")]
         /\ listTask' =
              IF got.state = "hit"
              THEN [call EXCEPT !.outcome = "ok",
                                !.result = listedItems(itemIndex.cached[2], call.opts)]
              ELSE IF got.state = "rejected"
                   THEN [call EXCEPT !.outcome = "failed"]
                   ELSE [call EXCEPT !.pc = "get"]
  /\ UNCHANGED <<vaultVars, callVars, agentKeys, itemStore, items, saveTask, indexUpdateQueue,
                 flushTask, revisionWrites, onItemUpdated>>

\* the steps of the calls in progress: they are the same under every caller
StoreSteps ==
  \/ \E u \in Uuids, fetched \in BOOLEAN : SaveContent(u, fetched)
  \/ \E w \in revisionWrites, written \in BOOLEAN : RevisionWritten(w, written)
  \/ \E u \in Uuids : SaveSettle(u)
  \/ FlushBegin
  \/ FlushMerge
  \/ \E written \in BOOLEAN : FlushWrite(written)
  \/ LoadRead
  \/ LoadDone

\* the two items are interchangeable: "b" is saved once "a" has been
SavedInOrder(u) == u = "b" => saveTask["a"].n > 0

\* Store.listItems() called without options
ListItems == ListItemsCall(DefaultListOptions)

\* the save pipeline under every interleaving of local saves of the two items
\* with the index flushes, storage failures, locks and unlocks
StoreNext ==
  \/ StoreUnlock
  \/ StoreLock
  \/ \E u \in Uuids :
       SavedInOrder(u) /\ SaveCall(u, "Local", items[u].updatedAt + 1)
  \/ StoreSteps

StoreSpec == StoreInit /\ [][StoreNext]_vars

\* the same with callers that list the items
CacheNext ==
  \/ StoreNext
  \/ ListItems

CacheSpec == StoreInit /\ [][CacheNext]_vars

\* the callers edit an item between its saves (item a, the one saved first),
\* save the items as local changes (at the time of the last save or later) or
\* as synced ones; the store stays unlocked once it is
RevisionNext ==
  \/ StoreUnlock
  \/ \E title \in Titles, content \in Contents :
       saveTask["a"].n > 0 /\ EditItem("a", title, content)
  \/ \E u \in Uuids, source \in Sources :
       \E now \in {items[u].updatedAt, items[u].updatedAt + 1} \ {0} :
         /\ SavedInOrder(u)
         /\ source = "Sync" => now = 1
         /\ SaveCall(u, source, now)
  \/ StoreSteps

RevisionSpec == StoreInit /\ [][RevisionNext]_vars

\* the revisions a sync collaborator may name for an item: the one the Item
\* object has, or one that was stored
SyncedRevisions(u) == {items[u].revision} \cup DOMAIN itemStore.revisions

\* an item is saved as a local change and marked as synced, again and again
SyncNext ==
  \/ StoreUnlock
  \/ SaveCall("a", "Local", items["a"].updatedAt + 1)
  \/ \E revision \in SyncedRevisions("a") : SetLastSyncedCall("a", revision)
  \/ \E written \in BOOLEAN : LastSyncedWritten("a", written)
  \/ StoreSteps

SyncSpec == StoreInit /\ [][SyncNext]_vars

\* the same with a key agent that forgets the keys at any moment
LockedSyncNext ==
  \/ SyncNext
  \/ StoreLock

LockedSyncSpec == StoreInit /\ [][LockedSyncNext]_vars

\* an item is edited and saved again and again as a local change, and its
\* revisions are loaded back
SnapshotNext ==
  \/ StoreUnlock
  \/ \E title \in Titles, content \in Contents :
       saveTask["a"].n > 0 /\ EditItem("a", title, content)
  \/ \E u \in Uuids :
       SavedInOrder(u) /\ SaveCall(u, "Local", items[u].updatedAt + 1)
  \/ \E u \in Uuids, revision \in DOMAIN itemStore.revisions :
       LoadItemRevision(u, revision)
  \/ StoreSteps

SnapshotSpec == StoreInit /\ [][SnapshotNext]_vars

\* the options listItems is called with
ListOptions == { [includeTombstones |-> b] : b \in BOOLEAN }

\* items are saved, the one saved first is removed, and they are listed, with
\* and without the tombstones
ListNext ==
  \/ StoreUnlock
  \/ saveTask["a"].n > 0 /\ RemoveItem("a")
  \/ \E u \in Uuids :
       SavedInOrder(u) /\ SaveCall(u, "Local", items[u].updatedAt + 1)
  \/ \E opts \in ListOptions : ListItemsCall(opts)
  \/ StoreSteps

ListSpec == StoreInit /\ [][ListNext]_vars

\* ------------------------------------------------------------ Store.unlock

\* Store.unlock calls made
MaxUnlocks == 2

\* key_agent.decryptKeys from key n on: every key is derived from the password
\* and validated; the first one that fails makes the whole call throw
RECURSIVE decryptKeys(_, _, _)
decryptKeys(keyEntries, n, pwd) ==
  IF n > Len(keyEntries) THEN [threw |-> FALSE, keys |-> <<>>]
  ELSE LET item       == EncryptionKeyEntry(keyEntries[n])
           saltCipher == extractSaltAndCipherText(item.data)
           key        == decryptKey(pwd, saltCipher.cipherText, saltCipher.salt,
                                    item.iterations, item.validation)
           rest       == decryptKeys(keyEntries, n + 1, pwd)
       IN  IF key.threw \/ rest.threw
           THEN [threw |-> TRUE, keys |-> <<>>]
           ELSE [threw |-> FALSE,
                 keys  |-> <<[id |-> item.identifier, key |-> key.key]>> \o rest.keys]

\* Store.unlock decrypting whatever listKeys returned, an empty list too
storeUnlockKeysOfAnyList(listed, pwd) ==
  LET decrypted == decryptKeys(listed, 1, pwd)
  IN  IF decrypted.threw THEN [err |-> "DecryptError", keys |-> <<>>]
      ELSE [err |-> "none", keys |-> decrypted.keys]

\* Store.unlock once listKeys() has returned: no key saved is an error, a key
\* that cannot be decrypted with the password is one, else the keys to add
storeUnlockKeys(listed, pwd) ==
  IF Len(listed) = 0 THEN [err |-> "NoKeysSaved", keys |-> <<>>]
  ELSE LET decrypted == decryptKeys(listed, 1, pwd)
       IN  IF decrypted.threw THEN [err |-> "DecryptError", keys |-> <<>>]
           ELSE [err |-> "none", keys |-> decrypted.keys]

\* the keys.forEach of Store.unlock: keyAgent.addKey for every decrypted key
RECURSIVE addKeys(_, _, _)
addKeys(table, decrypted, n) ==
  IF n > Len(decrypted) THEN table
  ELSE addKeys(addKey(table, decrypted[n].id, decrypted[n].key), decrypted, n + 1)

\* a store whose 'keys' object store holds any list of key entries
UnlockInit ==
  /\ keyFile = [hasList |-> FALSE, list |-> <<>>]
  /\ keys = readKeyData(keyFile)
  /\ agentKeys = <<>>
  /\ lockedSince = FALSE
  /\ lastOp = NoOp
  /\ ItemsIdle
  /\ keyStore \in KeyLists
  /\ unlockTask = IdleUnlock
  /\ onUnlock = 0
  /\ NetIdle

\* Store.unlock(pwd) is called: listKeys() is issued
StoreUnlockCall(pwd) ==
  /\ unlockTask.pc = "idle"
  /\ unlockTask.n < MaxUnlocks
  /\ unlockTask' = [IdleUnlock EXCEPT !.pc = "listKeys", !.pwd = pwd,
                                      !.n = unlockTask.n + 1]
  /\ UNCHANGED <<vaultVars, agentKeys, itemStore, itemIndex, items, saveTask,
                 indexUpdateQueue, flushTask, revisionWrites, listTask, onItemUpdated,
                 syncTask, loadTask, mergeCase, storeHist, keyStore, onUnlock, netVars>>

\* listKeys() returns, or fails; the keys are decrypted and keyAgent.addKey is
\* called for each of them
StoreUnlockListed(read) ==
  /\ unlockTask.pc = "listKeys"
  /\ LET r == storeUnlockKeys(keyStore, unlockTask.pwd)
     IN  IF ~read \/ r.err # "none"
         THEN /\ unlockTask' = [unlockTask EXCEPT !.pc = "idle", !.outcome = "failed"]
              /\ UNCHANGED agentKeys
         ELSE /\ unlockTask' = [unlockTask EXCEPT !.pc = "addKeys", !.keys = r.keys]
              /\ agentKeys' = addKeys(agentKeys, r.keys, 1)
  /\ UNCHANGED <<vaultVars, itemStore, itemIndex, items, saveTask,
                 indexUpdateQueue, flushTask, revisionWrites, listTask, onItemUpdated,
                 syncTask, loadTask, mergeCase, storeHist, keyStore, onUnlock, netVars>>

\* every addKey has resolved: onUnlock is published and unlock() resolves
StoreUnlockDone ==
  /\ unlockTask.pc = "addKeys"
  /\ unlockTask' = [unlockTask EXCEPT !.pc = "idle", !.outcome = "ok"]
  /\ onUnlock' = onUnlock + 1
  /\ UNCHANGED <<vaultVars, agentKeys, itemStore, itemIndex, items, saveTask,
                 indexUpdateQueue, flushTask, revisionWrites, listTask, onItemUpdated,
                 syncTask, loadTask, mergeCase, storeHist, keyStore, netVars>>

\* keyAgent.forgetKeys() while the store is being unlocked
AgentForgetKeys ==
  /\ agentKeys # <<>>
  /\ agentKeys' = forgetKeys(agentKeys)
  /\ UNCHANGED <<vaultVars, storeVars>>

UnlockNext ==
  \/ \E pwd \in Passwords : StoreUnlockCall(pwd)
  \/ \E read \in BOOLEAN : StoreUnlockListed(read)
  \/ StoreUnlockDone
  \/ AgentForgetKeys

UnlockSpec == UnlockInit /\ [][UnlockNext]_vars

\* ---------------------------------------------------------- net/rpc.ts
\* Two RpcHandlers on the two ends of a message port: one makes the calls
\* (rpcId, rpcPending, timers), the other has the handlers registered
\* (handlers, doneLater). The port delivers the messages of each kind in the
\* order they were emitted.

MaxCalls == 2
MaxHandlers == 2
MaxTime == 1

\* the methods called, and the ones handlers are registered for
Methods == {"m"}
HandledMethods == {"m"}

\* the timeout arguments of call(): none, and some numbers of ms
Timeouts == {NullTime, 0, 1}

\* what a handler registered with on() does when it is applied
SyncCallbacks == {"return", "throw"}

\* what a handler registered with onAsync() does when it is applied: call
\* done() with a result or with an error, throw, or keep done() for later
AsyncCallbacks == {"done", "fail", "throw", "later"}

\* call(): timeout = timeout || 5000
replyTimeout(timeout) ==
  IF timeout = NullTime \/ timeout = 0 THEN 5000 ELSE timeout

\* the message done(err, result) emits for a call; clone is the identity
rpcReply(call, err, result) ==
  [id |-> call.id, method |-> call.method, err |-> err, result |-> result]

\* the body of the handlers.forEach of the rpc-call listener for one matching
\* handler: the replies it emits and the done() it keeps
applyHandler(call, handler, n) ==
  IF handler.isAsync
  THEN CASE handler.callback = "done"  ->
              [replies |-> <<rpcReply(call, "null", "v")>>, later |-> {}]
         [] handler.callback = "fail"  ->
              [replies |-> <<rpcReply(call, "e", "null")>>, later |-> {}]
         [] handler.callback = "throw" ->
              [replies |-> <<rpcReply(call, "e", "null")>>, later |-> {}]
         [] OTHER ->
              [replies |-> <<>>,
               later   |-> {[id |-> call.id, method |-> call.method, handler |-> n]}]
  ELSE IF handler.callback = "return"
       THEN [replies |-> <<rpcReply(call, "null", "v")>>, later |-> {}]
       ELSE [replies |-> <<rpcReply(call, "e", "null")>>, later |-> {}]

\* the rpc-call listener: handlers.forEach from handler n on
RECURSIVE handleCall(_, _, _)
handleCall(call, hs, n) ==
  IF n > Len(hs) THEN [handled |-> FALSE, replies |-> <<>>, later |-> {}]
  ELSE LET rest == handleCall(call, hs, n + 1)
       IN  IF hs[n].method # call.method THEN rest
           ELSE LET ran == applyHandler(call, hs[n], n)
                IN  [handled |-> TRUE,
                     replies |-> ran.replies \o rest.replies,
                     later   |-> ran.later \cup rest.later]

\* the pending calls the rpc-reply listener finds for a reply
pendingFor(reply) ==
  SelectSeq(rpcPending, LAMBDA p : p.id = reply.id)

\* the callback of the call was run with (err, result)
Invoked(id, err, result) ==
  [id |-> id, err |-> err, result |-> result, at |-> clock]

\* RpcHandler.call(method, args, callback, timeout)
RpcCall(method, callback, timeout) ==
  /\ Len(rpcPending) < MaxCalls
  /\ LET id == rpcId + 1
     IN  /\ rpcId' = id
         /\ rpcPending' = Append(rpcPending,
              [id |-> id, method |-> method, callback |-> callback,
               replyTimerId |-> IF callback THEN id ELSE 0])
         /\ timers' = IF callback
                      THEN timers \cup {[id |-> id,
                                         deadline |-> clock + replyTimeout(timeout)]}
                      ELSE timers
         /\ port' = [port EXCEPT !.calls = Append(@, [id |-> id, method |-> method])]
         /\ rpcHist' = [rpcHist EXCEPT !.calls = Append(@,
              [id |-> id, callback |-> callback, timeout |-> timeout, at |-> clock])]
  /\ UNCHANGED <<clock, handlers, doneLater>>
  /\ UNCHANGED <<vaultVars, agentKeys, itemVars, unlockVars, jointVars, fileVars>>

\* RpcHandler.on(method, handler); the handlers are registered before the
\* first call is made
RpcOn(method, callback) ==
  /\ Len(handlers) < MaxHandlers
  /\ rpcPending = <<>>
  /\ handlers' = Append(handlers,
       [method |-> method, callback |-> callback, isAsync |-> FALSE])
  /\ UNCHANGED <<rpcId, rpcPending, timers, clock, port, doneLater, rpcHist>>
  /\ UNCHANGED <<vaultVars, agentKeys, itemVars, unlockVars, jointVars, fileVars>>

\* RpcHandler.onAsync(method, handler)
RpcOnAsync(method, callback) ==
  /\ Len(handlers) < MaxHandlers
  /\ rpcPending = <<>>
  /\ handlers' = Append(handlers,
       [method |-> method, callback |-> callback, isAsync |-> TRUE])
  /\ UNCHANGED <<rpcId, rpcPending, timers, clock, port, doneLater, rpcHist>>
  /\ UNCHANGED <<vaultVars, agentKeys, itemVars, unlockVars, jointVars, fileVars>>

\* the rpc-call listener runs for the next call on the port; without a
\* handler for the method it throws and nothing is emitted
RpcCallReceived ==
  /\ port.calls # <<>>
  /\ LET ran == handleCall(Head(port.calls), handlers, 1)
     IN  /\ port' = [calls |-> Tail(port.calls), replies |-> port.replies \o ran.replies]
         /\ doneLater' = doneLater \cup ran.later
         /\ rpcHist' = [rpcHist EXCEPT !.emitted = @ \o ran.replies]
  /\ UNCHANGED <<rpcId, rpcPending, timers, clock, handlers>>
  /\ UNCHANGED <<vaultVars, agentKeys, itemVars, unlockVars, jointVars, fileVars>>

\* an async handler calls the done() it kept
RpcDoneLater(done) ==
  /\ done \in doneLater
  /\ LET reply == rpcReply(done, "null", "v")
     IN  /\ port' = [port EXCEPT !.replies = Append(@, reply)]
         /\ rpcHist' = [rpcHist EXCEPT !.emitted = Append(@, reply)]
  /\ doneLater' = doneLater \ {done}
  /\ UNCHANGED <<rpcId, rpcPending, timers, clock, handlers>>
  /\ UNCHANGED <<vaultVars, agentKeys, itemVars, unlockVars, jointVars, fileVars>>

\* the rpc-reply listener runs for the next reply on the port: it throws
\* unless one pending call has the id; pending.callback clears the reply timer
\* and runs the caller's callback
RpcReplyReceived ==
  /\ port.replies # <<>>
  /\ LET reply == Head(port.replies)
         found == pendingFor(reply)
     IN  IF Len(found) = 1 /\ found[1].callback
         THEN /\ timers' = { t \in timers : t.id # found[1].replyTimerId }
              /\ rpcHist' = [rpcHist EXCEPT !.invoked =
                   Append(@, Invoked(reply.id, reply.err, reply.result))]
         ELSE UNCHANGED <<timers, rpcHist>>
  /\ port' = [port EXCEPT !.replies = Tail(@)]
  /\ UNCHANGED <<rpcId, rpcPending, clock, handlers, doneLater>>
  /\ UNCHANGED <<vaultVars, agentKeys, itemVars, unlockVars, jointVars, fileVars>>

\* a reply timer set by call() fires: the callback gets the timeout error
RpcTimeout(timer) ==
  /\ timer \in timers
  /\ timer.deadline <= clock
  /\ timers' = timers \ {timer}
  /\ rpcHist' = [rpcHist EXCEPT !.invoked =
       Append(@, Invoked(timer.id, "timeout", "null"))]
  /\ UNCHANGED <<rpcId, rpcPending, clock, port, handlers, doneLater>>
  /\ UNCHANGED <<vaultVars, agentKeys, itemVars, unlockVars, jointVars, fileVars>>

\* time passes: by a ms, or up to the deadline of a timer; no timer is left
\* behind
RpcTick(t) ==
  /\ t > clock
  /\ t = clock + 1 => clock < MaxTime
  /\ \A timer \in timers : t <= timer.deadline
  /\ clock' = t
  /\ UNCHANGED <<rpcId, rpcPending, timers, port, handlers, doneLater, rpcHist>>
  /\ UNCHANGED <<vaultVars, agentKeys, itemVars, unlockVars, jointVars, fileVars>>

RpcNext ==
  \/ \E method \in Methods :
       \/ RpcCall(method, FALSE, NullTime)
       \/ \E timeout \in Timeouts : RpcCall(method, TRUE, timeout)
  \/ \E method \in HandledMethods, callback \in SyncCallbacks : RpcOn(method, callback)
  \/ \E method \in HandledMethods, callback \in AsyncCallbacks :
       RpcOnAsync(method, callback)
  \/ RpcCallReceived
  \/ \E done \in doneLater : RpcDoneLater(done)
  \/ RpcReplyReceived
  \/ \E timer \in timers : RpcTimeout(timer)
  \/ \E t \in {clock + 1} \cup { timer.deadline : timer \in timers } : RpcTick(t)

RpcSpec == StoreInit /\ [][RpcNext]_vars

\* ------------------------------------- saveItem calls sharing an Item object

\* the push and the blob write of the second saveItem call on the Item of a
OverlapPush == pushOf("overlapSave", "a", 0)

OverlapWrites == { w \in revisionWrites : w.n = 0 }

\* saveItem(item, Local) is called on the Item object of a, whatever another
\* saveItem call on the same object is doing: up to item.getContent()
OverlapSaveCall(now) ==
  /\ overlapSave.pc = "idle"
  /\ storeHist.calls < MaxSaves
  /\ storeHist' = [storeHist EXCEPT !.calls = @ + 1]
  /\ LET check == saveItemCheck(items["a"], "Local", now)
         key   == keyForItem(agentKeys, check.item)
         call  == [IdleOverlap EXCEPT !.n = overlapSave.n + 1]
     IN  /\ items' = [items EXCEPT !["a"] = check.item]
         /\ overlapSave' = IF key.err # "none"
                           THEN [call EXCEPT !.outcome = "failed"]
                           ELSE [call EXCEPT !.pc = "content", !.key = key.key]
  /\ UNCHANGED <<vaultVars, agentKeys, itemStore, itemIndex, saveTask, indexUpdateQueue,
                 flushTask, revisionWrites, listTask, onItemUpdated, syncTask,
                 loadTask, mergeCase, unlockVars, rpcVars, heldSync, fileVars>>

\* the content arrives (or its fetch fails): the item gets its new revision
\* and the encryption of the ItemRevision begins
OverlapContent(fetched) ==
  /\ overlapSave.pc = "content"
  /\ LET r         == saveItemRevision(items["a"], items["a"].content)
         encrypted == storeEncrypt(agentKeys, overlapSave.key, r.revision)
     IN  IF ~fetched
         THEN /\ overlapSave' = [overlapSave EXCEPT !.pc = "idle", !.outcome = "failed"]
              /\ UNCHANGED items
         ELSE /\ items' = [items EXCEPT !["a"] = r.item]
              /\ overlapSave' =
                   IF encrypted.err # "none"
                   THEN [overlapSave EXCEPT !.pc = "idle", !.outcome = "failed",
                                            !.made = r.item.revision]
                   ELSE [overlapSave EXCEPT !.pc = "encrypt", !.data = encrypted.val,
                                            !.made = r.item.revision]
  /\ UNCHANGED <<vaultVars, agentKeys, itemStore, itemIndex, saveTask, indexUpdateQueue,
                 flushTask, revisionWrites, listTask, onItemUpdated, syncTask,
                 loadTask, mergeCase, storeHist, unlockVars, rpcVars, heldSync, fileVars>>

\* the encrypted revision arrives: the item is pushed on the index update
\* queue and the write of 'revisions/' + item.revision is issued, with the
\* revision the Item object has by now
OverlapEncrypted ==
  /\ overlapSave.pc = "encrypt"
  /\ LET q == push(indexUpdateQueue, flushTask, OverlapPush)
     IN  /\ indexUpdateQueue' = q.pending
         /\ flushTask' = q.flush
  /\ revisionWrites' = revisionWrites \cup
       {[uuid |-> "a", n |-> 0, revision |-> revisionKey(items["a"]),
         data |-> overlapSave.data]}
  /\ overlapSave' = [overlapSave EXCEPT !.pc = "writing"]
  /\ UNCHANGED <<vaultVars, agentKeys, itemStore, itemIndex, items, saveTask,
                 listTask, onItemUpdated, syncTask, loadTask, mergeCase, storeHist,
                 unlockVars, rpcVars, heldSync, fileVars>>

\* the flush that took the push and the blob write have settled: Q.all
\* settles, and saveItem publishes the item when both were fulfilled
OverlapSettle(fulfilled) ==
  /\ overlapSave.pc = "writing"
  /\ OverlapWrites = {}
  /\ \A i \in DOMAIN indexUpdateQueue : indexUpdateQueue[i] # OverlapPush
  /\ \A i \in DOMAIN flushTask.batch : flushTask.batch[i] # OverlapPush
  /\ LET settled == IF fulfilled THEN "ok" ELSE "failed"
         saved   == itemFromOverview("a", overviewFromItem(items["a"]))
     IN  /\ onItemUpdated' = publishItemUpdated(onItemUpdated, saved, settled)
         /\ overlapSave' = [overlapSave EXCEPT !.pc = "idle", !.outcome = settled]
  /\ UNCHANGED <<vaultVars, agentKeys, itemStore, itemIndex, items, saveTask,
                 indexUpdateQueue, flushTask, revisionWrites, listTask, syncTask,
                 loadTask, mergeCase, storeHist, unlockVars, rpcVars, heldSync,
                 fileVars>>

\* two saveItem calls on the Item object of a, interleaved in every way with
\* each other, the flushes and the writes
OverlapNext ==
  \/ StoreUnlock
  \/ SaveCall("a", "Local", items["a"].updatedAt + 1)
  \/ OverlapSaveCall(items["a"].updatedAt + 1)
  \/ \E fetched \in BOOLEAN : OverlapContent(fetched)
  \/ OverlapEncrypted
  \/ \E fulfilled \in BOOLEAN : OverlapSettle(fulfilled)
  \/ StoreSteps

OverlapSpec == StoreInit /\ [][OverlapNext]_vars

\* the push of setLastSyncedRevision called on the older Item object
HeldPush == pushOf("heldSync", "a", 0)

\* a sync collaborator loads item a, loadItem(uuid), while the cache holds the
\* index, and keeps the Item object it gets
HoldItem ==
  /\ heldSync.item = NoValue
  /\ itemIndex.cached # NoValue
  /\ LET loaded == loadItemFromList(listedItems(itemIndex.cached[2], DefaultListOptions),
                                    "a")
     IN  /\ loaded.err = "none"
         /\ heldSync' = [heldSync EXCEPT !.item = loaded.item]
  /\ UNCHANGED <<vaultVars, agentKeys, itemVars, unlockVars, rpcVars, overlapSave,
                 fileVars>>

\* setLastSyncedRevision(item, item.revision) is called on the Item object
\* that was kept: the assertion, then itemStore.set of 'lastSynced/' + uuid
HeldSyncCall ==
  /\ heldSync.pc = "idle"
  /\ heldSync.item # NoValue
  /\ storeHist.syncs < MaxSyncs
  /\ LET call == setLastSyncedEntry(heldSync.item[2], heldSync.item[2].revision)
         made == [heldSync EXCEPT !.n = @ + 1, !.outcome = "none"]
     IN  heldSync' = IF call.threw THEN [made EXCEPT !.outcome = "threw"]
                     ELSE [made EXCEPT !.pc = "storing", !.entry = call.entry]
  /\ storeHist' = [storeHist EXCEPT !.syncs = @ + 1]
  /\ UNCHANGED <<vaultVars, agentKeys, itemStore, itemIndex, items, saveTask,
                 indexUpdateQueue, flushTask, revisionWrites, listTask, onItemUpdated,
                 syncTask, loadTask, mergeCase, unlockVars, rpcVars, overlapSave,
                 fileVars>>

\* the write of lastSynced/<uuid> lands and the Item object is pushed on the
\* index update queue, or the write fails and the call is rejected
HeldSyncWritten(written) ==
  /\ heldSync.pc = "storing"
  /\ LET q == push(indexUpdateQueue, flushTask, HeldPush)
     IN  IF written
         THEN /\ itemStore' = [itemStore EXCEPT !.lastSynced =
                                 ("a" :> heldSync.entry[2]) @@ @]
              /\ indexUpdateQueue' = q.pending
              /\ flushTask' = q.flush
              /\ heldSync' = [heldSync EXCEPT !.pc = "pushed"]
         ELSE /\ heldSync' = [heldSync EXCEPT !.pc = "idle", !.outcome = "failed"]
              /\ UNCHANGED <<itemStore, indexUpdateQueue, flushTask>>
  /\ UNCHANGED <<vaultVars, agentKeys, itemIndex, items, saveTask, revisionWrites,
                 listTask, onItemUpdated, syncTask, loadTask, mergeCase, storeHist,
                 unlockVars, rpcVars, overlapSave, fileVars>>

\* the flush that took the push has settled, and the call with it
HeldSyncSettle(fulfilled) ==
  /\ heldSync.pc = "pushed"
  /\ \A i \in DOMAIN indexUpdateQueue : indexUpdateQueue[i] # HeldPush
  /\ \A i \in DOMAIN flushTask.batch : flushTask.batch[i] # HeldPush
  /\ heldSync' = [heldSync EXCEPT !.pc = "idle",
                                  !.outcome = IF fulfilled THEN "ok" ELSE "failed"]
  /\ UNCHANGED <<vaultVars, agentKeys, itemVars, unlockVars, rpcVars, overlapSave,
                 fileVars>>

\* item a is saved again and again while a sync collaborator holds an Item
\* object of it and reports that object's revision as synced
HeldNext ==
  \/ StoreUnlock
  \/ SaveCall("a", "Local", items["a"].updatedAt + 1)
  \/ HoldItem
  \/ HeldSyncCall
  \/ \E written \in BOOLEAN : HeldSyncWritten(written)
  \/ \E fulfilled \in BOOLEAN : HeldSyncSettle(fulfilled)
  \/ StoreSteps

HeldSpec == StoreInit /\ [][HeldNext]_vars

\* ------------------------------------------ onepass Vault.saveItem (files)

MaxVaultSaves == 1

\* the entry of contents.js for an item
contentsEntry(uuid, item) ==
  [uuid |-> uuid, typeName |-> item.typeName, title |-> item.title,
   updatedAt |-> item.updatedAt]

\* saveItem on the parsed contents.js: the first entry with the item's uuid
\* is updated, or a new entry is pushed
updateContents(contentEntries, uuid, item) ==
  LET found == { i \in DOMAIN contentEntries : contentEntries[i].uuid = uuid }
  IN  IF found = {} THEN Append(contentEntries, contentsEntry(uuid, item))
      ELSE LET first == CHOOSE i \in found : \A k \in found : i <= k
           IN  [contentEntries EXCEPT ![first] = contentsEntry(uuid, item)]

\* asyncutil.resolveWith: the deferred takes the outcome of the promise
resolveWith(written) == IF written THEN "resolved" ELSE "rejected"

\* Q.all([itemSaved.promise, overviewSaved.promise])
vaultSaveSettled(itemSaved, overviewSaved) ==
  IF itemSaved = "rejected" \/ overviewSaved = "rejected" THEN "rejected"
  ELSE IF itemSaved = "resolved" /\ overviewSaved = "resolved" THEN "resolved"
  ELSE "pending"

\* a chain of saveItem has come to its end, or was never started
ChainEnded(stage) == stage \in {"idle", "done", "failed"}

\* Vault.saveItem(item): the timestamps are set, item.getContent() and the
\* read of contents.js are issued
VaultSaveCall(u, now) ==
  /\ ChainEnded(vaultSave[u].content) /\ ChainEnded(vaultSave[u].contents)
  /\ vaultSave[u].n < MaxVaultSaves
  /\ items' = [items EXCEPT ![u] = updateTimestamps(items[u], now)]
  /\ vaultSave' = [vaultSave EXCEPT ![u] =
       [IdleVaultSave EXCEPT !.n = vaultSave[u].n + 1, !.itemSaved = "pending",
                             !.overviewSaved = "pending", !.content = "getContent",
                             !.contents = "read", !.outcome = "pending"]]
  /\ UNCHANGED <<vaultVars, agentKeys, itemStore, itemIndex, saveTask, indexUpdateQueue,
                 flushTask, revisionWrites, listTask, onItemUpdated, syncTask,
                 loadTask, mergeCase, storeHist, unlockVars, rpcVars, jointVars,
                 vaultFiles>>

\* item.getContent() settles: with the content the encryption is begun; a
\* rejection is rethrown by done() and itemSaved is left as it is
VaultGetContent(u, fetched) ==
  /\ vaultSave[u].content = "getContent"
  /\ vaultSave' = [vaultSave EXCEPT ![u].content =
                     IF fetched THEN "encrypt" ELSE "failed"]
  /\ UNCHANGED <<vaultVars, agentKeys, itemVars, unlockVars, rpcVars, jointVars,
                 vaultFiles>>

\* encryptItemData settles: the write of the item file is issued; a rejection
\* is rethrown by done()
VaultEncrypted(u) ==
  /\ vaultSave[u].content = "encrypt"
  /\ LET encrypted == encryptItemData(keys, agentKeys, "SL5",
                                      JSONstringify(items[u].content), StoreSalt)
     IN  vaultSave' = [vaultSave EXCEPT ![u] =
           IF encrypted.err # "none" THEN [vaultSave[u] EXCEPT !.content = "failed"]
           ELSE [vaultSave[u] EXCEPT
                   !.content = "write",
                   !.file = Some([title |-> items[u].title,
                                  updatedAt |-> items[u].updatedAt,
                                  encrypted |-> encrypted.val])]]
  /\ UNCHANGED <<vaultVars, agentKeys, itemVars, unlockVars, rpcVars, jointVars,
                 vaultFiles>>

\* the write of the item file settles: itemSaved is resolved when it landed,
\* nothing handles its rejection
VaultItemWritten(u, written) ==
  /\ vaultSave[u].content = "write"
  /\ vaultFiles' = IF written
                   THEN [vaultFiles EXCEPT !.items = (u :> vaultSave[u].file[2]) @@ @]
                   ELSE vaultFiles
  /\ LET call      == vaultSave[u]
         itemSaved == IF written THEN "resolved" ELSE call.itemSaved
     IN  vaultSave' = [vaultSave EXCEPT ![u] =
           [call EXCEPT !.content = IF written THEN "done" ELSE "failed",
                        !.itemSaved = itemSaved,
                        !.outcome = vaultSaveSettled(itemSaved, call.overviewSaved)]]
  /\ UNCHANGED <<vaultVars, agentKeys, itemVars, unlockVars, rpcVars, jointVars>>

\* the read of contents.js settles: the entry of the item is set in the
\* entries that were read and their write is issued; a rejection is rethrown
\* by done() and overviewSaved is left as it is
VaultContentsRead(u, read) ==
  /\ vaultSave[u].contents = "read"
  /\ vaultSave' = [vaultSave EXCEPT ![u] =
       IF read
       THEN [vaultSave[u] EXCEPT
               !.contents = "write",
               !.entries = updateContents(vaultFiles.contents, u, items[u])]
       ELSE [vaultSave[u] EXCEPT !.contents = "failed"]]
  /\ UNCHANGED <<vaultVars, agentKeys, itemVars, unlockVars, rpcVars, jointVars,
                 vaultFiles>>

\* the write of contents.js settles, and overviewSaved with it
VaultContentsWritten(u, written) ==
  /\ vaultSave[u].contents = "write"
  /\ vaultFiles' = IF written
                   THEN [vaultFiles EXCEPT !.contents = vaultSave[u].entries]
                   ELSE vaultFiles
  /\ LET call          == vaultSave[u]
         overviewSaved == resolveWith(written)
     IN  vaultSave' = [vaultSave EXCEPT ![u] =
           [call EXCEPT !.contents = IF written THEN "done" ELSE "failed",
                        !.overviewSaved = overviewSaved,
                        !.outcome = vaultSaveSettled(call.itemSaved, overviewSaved)]]
  /\ UNCHANGED <<vaultVars, agentKeys, itemVars, unlockVars, rpcVars, jointVars>>

\* the two items are interchangeable: "b" is saved once "a" has been
SavedFirst(u) == u = "b" => vaultSave["a"].n > 0

\* a vault with the SL5 key in its key file
VaultSaveInit ==
  /\ keyFile \in { f \in KeyFiles :
                     f.hasList /\ Len(f.list) = 1 /\ f.list[1].level = "SL5" }
  /\ keys = readKeyData(keyFile)
  /\ agentKeys = <<>>
  /\ lockedSince = FALSE
  /\ lastOp = NoOp
  /\ StoreIdle

\* items are saved in a vault that is unlocked and locked, with every
\* interleaving of the steps of the saveItem calls and every file failure
VaultSaveNext ==
  \/ \E pwd \in Passwords : Unlock(pwd)
  \/ Lock
  \/ \E u \in Uuids : SavedFirst(u) /\ VaultSaveCall(u, items[u].updatedAt + 1)
  \/ \E u \in Uuids, fetched \in BOOLEAN : VaultGetContent(u, fetched)
  \/ \E u \in Uuids : VaultEncrypted(u)
  \/ \E u \in Uuids, written \in BOOLEAN : VaultItemWritten(u, written)
  \/ \E u \in Uuids, read \in BOOLEAN : VaultContentsRead(u, read)
  \/ \E u \in Uuids, written \in BOOLEAN : VaultContentsWritten(u, written)

VaultSaveSpec == VaultSaveInit /\ [][VaultSaveNext]_vars

\* updateIndex on every array of updated items, map and lastSynced entries
MergeSpec == StoreInit /\ [][MergeNext]_vars

\* -------------------------------------------------- properties of the store

PersistedRevision(revision) ==
  JSONparse(decryptAgileKeychainItemData(RawKey(StoreKeyId),
                                         itemStore.revisions[revision])).val

PersistedIndex ==
  IF itemStore.index = NoValue THEN <<>>
  ELSE JSONparse(decryptAgileKeychainItemData(RawKey(StoreKeyId), itemStore.index)).val

HasRevisionBlob(revision) == revision \in DOMAIN itemStore.revisions

\* the saves of item u that were fulfilled, as recorded when they were
SavedOf(u) == { s \in storeHist.saved : s.uuid = u }

\* C13: once a saveItem has set the item's revision (and after it was
\* fulfilled), the item's parentRevision is the revision the item had when
\* saveItem was called, null for a first save; the ItemRevision persisted by a
\* fulfilled save records that parentRevision.
C13_ParentIsPreviousRevision ==
  \A u \in Uuids :
    /\ (saveTask[u].pc = "writing" \/ saveTask[u].outcome = "ok")
         => items[u].parentRevision = saveTask[u].prev
    /\ saveTask[u].outcome = "ok"
         => /\ HasRevisionBlob(items[u].revision)
            /\ PersistedRevision(items[u].revision).parentRevision = saveTask[u].prev
            /\ PersistedRevision(items[u].revision).overview.parentRevision
                 = saveTask[u].prev

\* a second save of an item was fulfilled: its parent is the first revision
C13_Witness ==
  \E u \in Uuids :
    /\ saveTask[u].outcome = "ok"
    /\ saveTask[u].prev # NoValue
    /\ items[u].parentRevision = saveTask[u].prev

\* the revisions met from `revision` along the persisted parentRevision
\* pointers, as long as each has a blob (at most `fuel` of them)
RECURSIVE RevisionChain(_, _)
RevisionChain(revision, fuel) ==
  IF revision = NoValue \/ fuel = 0 \/ ~HasRevisionBlob(revision) THEN <<>>
  ELSE <<revision>> \o RevisionChain(PersistedRevision(revision).parentRevision, fuel - 1)

\* every saveItem call made on item u so far was fulfilled
AllSavesFulfilled(u) ==
  /\ saveTask[u].pc = "idle"
  /\ saveTask[u].n > 0
  /\ Cardinality(SavedOf(u)) = saveTask[u].n

\* C14: after N saveItem calls on one item, each fulfilled before the next,
\* the parentRevision pointers from the item's revision lead through exactly N
\* distinct revisions down to null, each with its blob under revisions/<id>,
\* and every blob still is the ItemRevision its save persisted.
C14_ChainIntegrity ==
  \A u \in Uuids :
    AllSavesFulfilled(u) =>
      LET chain == RevisionChain(items[u].revision, MaxSaves + 1)
      IN  /\ Len(chain) = saveTask[u].n
          /\ Cardinality({ chain[i] : i \in 1..Len(chain) }) = saveTask[u].n
          /\ PersistedRevision(chain[Len(chain)]).parentRevision = NoValue
          /\ \A s \in SavedOf(u) :
               /\ \E i \in 1..Len(chain) : chain[i] = s.revision
               /\ PersistedRevision(s.revision) =
                    [parentRevision |-> s.prev, overview |-> s.overview,
                     content |-> s.content]

\* two saves of one item were fulfilled one after the other
C14_Witness ==
  \E u \in Uuids :
    /\ AllSavesFulfilled(u)
    /\ saveTask[u].n = 2
    /\ Len(RevisionChain(items[u].revision, MaxSaves + 1)) = 2

\* the overview fields a revision id is computed from
RevisionInputs(s) ==
  <<s.overview.title, s.overview.updatedAt, s.overview.createdAt,
    s.overview.parentRevision, s.content>>

SyncCallWithoutTimestamps(u) ==
  /\ saveTask'[u].n = saveTask[u].n + 1
  /\ saveTask'[u].source = "Sync"
  /\ items[u].createdAt = 0 \/ items[u].updatedAt = 0

\* C19: saveItem(item, Sync) on an item without createdAt or updatedAt throws
\* the assertion and does nothing else: no revision blob is written or issued,
\* nothing is pushed on the index update queue, nothing is published and the
\* item (its revision and parentRevision with it) is as it was.
C19_SyncSaveAssertsTimestamps ==
  [][\A u \in Uuids :
       SyncCallWithoutTimestamps(u) =>
         /\ saveTask'[u].outcome = "threw"
         /\ saveTask'[u].pc = "idle"
         /\ UNCHANGED <<items, itemStore, revisionWrites, indexUpdateQueue,
                        flushTask, itemIndex, onItemUpdated>>]_vars

\* a synced save of an item without timestamps has thrown
C19_Witness ==
  \E u \in Uuids :
    /\ saveTask[u].outcome = "threw"
    /\ saveTask[u].source = "Sync"
    /\ items[u].createdAt = 0

\* the future saveItem returned for item u is fulfilled in this step
SaveFulfilled(u) ==
  /\ saveTask[u].pc = "writing"
  /\ saveTask'[u].pc = "idle"
  /\ saveTask'[u].outcome = "ok"

\* the revision of item u has its blob and is the one the persisted index
\* records for u
RevisionLanded(u) ==
  /\ HasRevisionBlob(items[u].revision)
  /\ PersistedRevision(items[u].revision).overview.revision = items[u].revision
  /\ u \in DOMAIN PersistedIndex
  /\ PersistedIndex[u].revision = items[u].revision

\* C16: the future returned by saveItem is fulfilled only when the write of
\* revisions/<revision> and the index flush holding the item have both
\* succeeded (neither pending nor failed): the blob and the index entry with
\* the item's revision are persisted at that moment.
C16_ResolvesAfterBothWrites ==
  [][\A u \in Uuids :
       SaveFulfilled(u) =>
         /\ saveTask[u].revisionSaved = "ok"
         /\ saveTask[u].indexUpdated = "ok"
         /\ RevisionLanded(u)]_vars

\* a save was fulfilled after the push of another save had been put in the
\* same queue
C16_Witness ==
  \E u \in Uuids :
    /\ saveTask[u].outcome = "ok"
    /\ saveTask[u].revisionSaved = "ok"
    /\ saveTask[u].indexUpdated = "ok"
    /\ RevisionLanded(u)

\* the index a loadItem(uuid) called now is answered from: the cached map,
\* else the result of the load in flight, else what is persisted
IndexSeenNow ==
  IF itemIndex.cached # NoValue THEN itemIndex.cached[2]
  ELSE IF itemIndex.load = "loaded" THEN itemIndex.result[2]
       ELSE PersistedIndex

\* loadItem(u) called now finds the item at the revision the Item object has
SeenByLoadItem(u) ==
  /\ u \in DOMAIN IndexSeenNow
  /\ IndexSeenNow[u].revision = items[u].revision

\* C17: onItemUpdated is published once when a saveItem is fulfilled, with the
\* saved item, and at no other step (never for a save that fails); at that
\* moment the revision blob and the index entry have landed, and a listener
\* that calls loadItem(uuid) finds the new revision.
C17_PublishedOncePerSave ==
  [][/\ \A u \in Uuids :
          SaveFulfilled(u) =>
            /\ onItemUpdated' = Append(onItemUpdated,
                                       itemFromOverview(u, overviewFromItem(items[u])))
            /\ RevisionLanded(u)
            /\ SeenByLoadItem(u)'
     /\ onItemUpdated' # onItemUpdated => \E u \in Uuids : SaveFulfilled(u)]_vars

\* the last saveItem of item u failed after it had given the item a new
\* revision
FailedWithNewRevision(u) ==
  /\ saveTask[u].pc = "idle"
  /\ saveTask[u].outcome = "failed"
  /\ items[u].revision # saveTask[u].prev

\* the entry of item u in overviewMap points to the revision the Item has
PointsToRevision(overviewMap, u) ==
  /\ u \in DOMAIN overviewMap
  /\ overviewMap[u].revision = items[u].revision

\* C18: when saveItem has failed, at whatever step, neither the cached nor the
\* persisted OverviewMap has an entry for the item that points to the revision
\* of the failed save.
C18_FailedSaveNotIndexed ==
  \A u \in Uuids :
    FailedWithNewRevision(u) =>
      /\ ~(itemIndex.cached # NoValue /\ PointsToRevision(itemIndex.cached[2], u))
      /\ ~PointsToRevision(PersistedIndex, u)

\* the number of places of sequence q that hold entry e
Occurrences(q, e) == Cardinality({i \in 1..Len(q) : q[i] = e})

\* the push of the running saveItem of item u, while its future is pending
PendingPush(u) ==
  /\ saveTask[u].pc = "writing"
  /\ saveTask[u].indexUpdated = "pending"

\* a flush of the index update queue begins in this step
FlushBegins == indexUpdateQueue # <<>> /\ indexUpdateQueue' = <<>>

\* C20: BatchedUpdateQueue. A push whose future is pending is held once,
\* either in the pending batch or in the batch of the running flush (no push
\* is dropped). A flush begins only when none is running and takes every push
\* accepted before it; the batch of a running flush does not change, so a push
\* arriving meanwhile stays pending for the next flush. The future of a push is
\* fulfilled only in the step in which the flush holding it has written the
\* index.
C20_BatchedUpdateQueue ==
  /\ [](\A u \in Uuids :
          PendingPush(u) =>
            LET entry == pushOf("saveItem", u, saveTask[u].n)
            IN  Occurrences(indexUpdateQueue, entry)
                  + Occurrences(flushTask.batch, entry) = 1)
  /\ [][/\ FlushBegins =>
             /\ flushTask.pc = "idle"
             /\ \/ flushTask'.batch = indexUpdateQueue
                \/ \A i \in 1..Len(indexUpdateQueue) :
                     LET task == saveTask'[indexUpdateQueue[i].uuid]
                     IN  ~(task.pc = "writing" /\ task.indexUpdated = "pending")
        /\ (flushTask.pc # "idle" /\ flushTask'.pc # "idle") =>
             flushTask'.batch = flushTask.batch
        /\ \A u \in Uuids :
             (PendingPush(u) /\ saveTask'[u].indexUpdated = "ok") =>
               /\ flushTask.pc = "write"
               /\ Occurrences(flushTask.batch, pushOf("saveItem", u, saveTask[u].n)) = 1
               /\ itemStore'.index = flushTask.data
               /\ PointsToRevision(PersistedIndex, u)']_vars

\* the push of item b arrived while the flush holding the push of item a was
\* writing the index: it waits in the pending batch
C20_Witness ==
  /\ flushTask.pc = "write"
  /\ flushTask.batch = <<pushOf("saveItem", "a", 1)>>
  /\ indexUpdateQueue = <<pushOf("saveItem", "b", 1)>>
  /\ PendingPush("a")
  /\ PendingPush("b")

\* the pushes of two items wait in the pending batch
TwoItemsPending ==
  /\ Len(indexUpdateQueue) = 2
  /\ indexUpdateQueue[1].uuid # indexUpdateQueue[2].uuid

\* C21: when the pushes of items A and B are pending as a flush begins, one
\* updateIndex call takes both: the one itemIndex.get it makes starts at most
\* one load, its merge sets the entries of both items in one map, and the one
\* write of that map persists both and ends the cycle, with nothing left to
\* flush for them.
C21_OneCyclePerBatch ==
  [][/\ (FlushBegins /\ TwoItemsPending /\ flushTask'.pc # "idle") =>
          /\ flushTask.pc = "idle"
          /\ flushTask'.batch = indexUpdateQueue
          /\ itemIndex'.load # itemIndex.load =>
               (itemIndex.load = "idle" /\ itemIndex.cached = NoValue)
     /\ (flushTask.pc = "merge" /\ flushTask'.pc = "write") =>
          \A i \in 1..Len(flushTask.batch) :
            LET u == flushTask.batch[i].uuid
            IN  /\ u \in DOMAIN flushTask'.overviewMap
                /\ flushTask'.overviewMap[u].revision = items[u].revision
     /\ (flushTask.pc = "write" /\ itemStore'.index # itemStore.index) =>
          /\ itemStore'.index = flushTask.data
          /\ PersistedIndex' = flushTask.overviewMap
          /\ flushTask' = IdleFlush
          /\ indexUpdateQueue' = indexUpdateQueue
          /\ \A u \in Uuids :
               (/\ PendingPush(u)
                /\ Occurrences(flushTask.batch,
                               pushOf("saveItem", u, saveTask[u].n)) = 1) =>
                 saveTask'[u].indexUpdated = "ok"]_vars

\* the pushes of items a and b were taken by one flush, which has merged
\* both entries into the map it is about to write
C21_Witness ==
  /\ flushTask.pc = "write"
  /\ Len(flushTask.batch) = 2
  /\ \A u \in Uuids :
       /\ PendingPush(u)
       /\ Occurrences(flushTask.batch, pushOf("saveItem", u, 1)) = 1
       /\ PointsToRevision(flushTask.overviewMap, u)

\* the place of the last push of item uuid in updatedItems, 0 when there is
\* none
LastPushOf(updatedItems, uuid) ==
  LET places == {i \in DOMAIN updatedItems : updatedItems[i].uuid = uuid}
  IN  IF places = {} THEN 0
      ELSE CHOOSE i \in places : \A j \in places : j <= i

\* C22: when an updateIndex call that did not throw was given several pushes
\* of one uuid, the entry of that uuid in the map it writes is the overview of
\* the item pushed last, with the time of the item's lastSynced entry.
C22_LastPushWins ==
  (mergeCase.done /\ ~mergeCase.result.threw) =>
    \A uuid \in Uuids :
      LET last == LastPushOf(mergeCase.updatedItems, uuid)
      IN  last > 0 =>
            /\ uuid \in DOMAIN mergeCase.result.overviewMap
            /\ mergeCase.result.overviewMap[uuid] =
                 [lastSyncedAt |-> lastSyncTimes(mergeCase.lastSyncEntries)[last]]
                   @@ overviewFromItem(mergeCase.updatedItems[last])

\* item a was pushed twice in one batch, from two objects with different
\* titles, and the merge went through
C22_Witness ==
  /\ mergeCase.done
  /\ ~mergeCase.result.threw
  /\ \E i, j \in DOMAIN mergeCase.updatedItems :
       /\ i < j
       /\ mergeCase.updatedItems[i].uuid = "a"
       /\ mergeCase.updatedItems[j].uuid = "a"
       /\ mergeCase.updatedItems[i].title # mergeCase.updatedItems[j].title
       /\ mergeCase.result.overviewMap["a"].title = mergeCase.updatedItems[j].title

\* every saveItem call made so far was fulfilled, and none is in progress
AllSavesResolved ==
  \A u \in Uuids :
    /\ saveTask[u].pc = "idle"
    /\ Cardinality(SavedOf(u)) = saveTask[u].n

\* C23: once all the saveItem calls made on distinct items have been
\* fulfilled, the OverviewMap that answers listItems and the persisted one both
\* have, for every saved item, an entry with the item's latest saved revision.
C23_NoLostIndexUpdate ==
  AllSavesResolved =>
    \A u \in Uuids :
      saveTask[u].n > 0 =>
        /\ PointsToRevision(PersistedIndex, u)
        /\ PointsToRevision(IndexSeenNow, u)

\* listItems is called in this step
ListBegins == listTask.pc = "idle" /\ listTask' # listTask

\* itemIndex.get() is called in this step, by a flush or by listItems
GetCalled == FlushBegins \/ ListBegins

\* C24: Cached.get is single-flight. The loader is invoked only by a get()
\* that finds no value cached and no load in flight; a get() that finds a
\* load in flight joins it and leaves the load alone; the result of the load
\* reaches every get() that waited for it; a get() that finds a value cached
\* returns that value and leaves the cache as it is.
C24_SingleFlightGet ==
  [][/\ (itemIndex'.load = "read" /\ itemIndex.load # "read") =>
          /\ GetCalled
          /\ itemIndex.load = "idle"
          /\ itemIndex.cached = NoValue
          /\ Cardinality(itemIndex'.waiters) = 1
     /\ (GetCalled /\ itemIndex.cached = NoValue /\ itemIndex.load # "idle") =>
          /\ itemIndex'.load = itemIndex.load
          /\ itemIndex'.result = itemIndex.result
          /\ itemIndex.waiters \subseteq itemIndex'.waiters
          /\ FlushBegins => "flush" \in itemIndex'.waiters
          /\ ListBegins => "list" \in itemIndex'.waiters
     /\ (itemIndex.load = "loaded" /\ itemIndex'.load = "idle") =>
          /\ itemIndex'.cached = itemIndex.result
          /\ "flush" \in itemIndex.waiters =>
               /\ flushTask'.pc = "merge"
               /\ flushTask'.overviewMap = itemIndex.result[2]
          /\ "list" \in itemIndex.waiters =>
               /\ listTask'.outcome = "ok"
               /\ listTask'.result = listedItems(itemIndex.result[2], listTask.opts)
     /\ (GetCalled /\ itemIndex.cached # NoValue) =>
          /\ itemIndex' = itemIndex
          /\ FlushBegins => flushTask'.overviewMap = itemIndex.cached[2]
          /\ ListBegins =>
               /\ listTask'.outcome = "ok"
               /\ listTask'.result = listedItems(itemIndex.cached[2], listTask'.opts)
    ]_vars

\* a flush and a listItems both wait for one load, whose result is there
C24_Witness ==
  /\ itemIndex.load = "loaded"
  /\ itemIndex.waiters = {"flush", "list"}
  /\ flushTask.pc = "get"
  /\ listTask.pc = "get"

\* the write of the index a flush issued is rejected in this step
FlushWriteFails ==
  /\ flushTask.pc = "write"
  /\ flushTask'.pc = "idle"
  /\ itemStore.index # flushTask.data
  /\ itemStore'.index = itemStore.index

\* C25: when the index write of a flush fails, the cached OverviewMap that a
\* later get() or listItems() is answered from is the one the flush got
\* before it merged its batch.
C25_FailedWriteLeavesCache ==
  [][(FlushWriteFails /\ itemIndex'.cached # NoValue) =>
       itemIndex'.cached[2] = flushTask.before]_vars

\* C26: loadItem(uuid, R) for a revision R a fulfilled saveItem stored returns
\* the overview and the parentRevision that save persisted, whatever was saved
\* since; the call writes nothing: the index, the revision blobs, the
\* lastSynced entries, the index cache and the queue are as they were.
C26_LoadRevisionIsSnapshot ==
  /\ [](\A s \in storeHist.saved :
          (loadTask.outcome = "ok" /\ loadTask.revision = s.revision) =>
            /\ overviewFromItem(loadTask.item[2]) = s.overview
            /\ loadTask.item[2].parentRevision = s.prev
            /\ loadTask.item[2].uuid = loadTask.uuid)
  /\ [][loadTask' # loadTask =>
          UNCHANGED <<itemStore, itemIndex, indexUpdateQueue, flushTask, items>>]_vars

\* the first revision of item a was loaded back after a second save of the
\* edited item was fulfilled
C26_Witness ==
  /\ loadTask.outcome = "ok"
  /\ loadTask.uuid = "a"
  /\ Cardinality(SavedOf("a")) = 2
  /\ loadTask.revision # items["a"].revision
  /\ loadTask.revision = items["a"].parentRevision
  /\ loadTask.item[2].title # items["a"].title
  /\ loadTask.item[2].parentRevision = NoValue

\* the listItems call of a loadItem(uuid) returns in this step
ListReturns ==
  /\ listTask'.outcome = "ok"
  /\ listTask.pc = "get" \/ ListBegins

\* the listItems() call of a loadItem(uuid), made without options, returns
LoadItemListed == ListReturns /\ listTask'.opts = DefaultListOptions

\* C27: loadItem(uuid) returns, for every uuid that has an entry in the
\* OverviewMap its listItems was answered from, the item of that entry (its
\* title and revision), and is rejected as not found exactly for the uuids
\* that have no entry.
C27_LoadItemFromIndex ==
  [][LoadItemListed =>
       \A u \in Uuids :
         LET overviewMap == itemIndex'.cached[2]
             loaded      == loadItemFromList(listTask'.result, u)
         IN  /\ u \in DOMAIN overviewMap =>
                  /\ loaded.err = "none"
                  /\ loaded.item = Some(itemFromOverview(u, overviewMap[u]))
             /\ loaded.err = "NoSuchItem" <=> u \notin DOMAIN overviewMap]_vars

\* C27 (amended): loadItem(uuid) returns the item of the OverviewMap's entry
\* for every uuid whose entry is not a tombstone, and is rejected as not found
\* exactly for the uuids that have no entry or whose entry is a tombstone.
C27_LoadItemSkipsTombstones ==
  [][LoadItemListed =>
       \A u \in Uuids :
         LET overviewMap == itemIndex'.cached[2]
             loaded      == loadItemFromList(listTask'.result, u)
             live        == /\ u \in DOMAIN overviewMap
                            /\ ~isTombstone(itemFromOverview(u, overviewMap[u]))
         IN  /\ live => /\ loaded.err = "none"
                        /\ loaded.item = Some(itemFromOverview(u, overviewMap[u]))
             /\ loaded.err = "NoSuchItem" <=> ~live]_vars

\* a listItems call has returned from an index that holds a removed item and
\* a live one
C27_Witness ==
  /\ listTask.outcome = "ok"
  /\ listTask.opts = DefaultListOptions
  /\ itemIndex.cached # NoValue
  /\ listTask.result = listedItems(itemIndex.cached[2], listTask.opts)
  /\ \E u, v \in DOMAIN itemIndex.cached[2] :
       /\ isTombstone(itemFromOverview(u, itemIndex.cached[2][u]))
       /\ loadItemFromList(listTask.result, u).err = "NoSuchItem"
       /\ loadItemFromList(listTask.result, v).err = "none"

\* setLastSyncedRevision is called for item u in this step
SyncCalled(u) == syncTask'[u].n = syncTask[u].n + 1

\* a push of the setLastSyncedRevision call of item u is queued or in a flush
SyncPushed(u) ==
  LET entry == pushOf("setLastSyncedRevision", u, syncTask[u].n)
  IN  Occurrences(indexUpdateQueue, entry) + Occurrences(flushTask.batch, entry) > 0

\* C28: setLastSyncedRevision(item, revision) with a revision that is not
\* item.revision fails at its assertion and has no effect: in the step of the
\* call the store and the index update queue stay as they are, and the call
\* has no write and no push under way afterwards.
C28_StaleRevisionAsserts ==
  /\ [](\A u \in Uuids :
          syncTask[u].outcome = "threw" => (syncTask[u].pc = "idle" /\ ~SyncPushed(u)))
  /\ [][\A u \in Uuids :
          (SyncCalled(u) /\ syncTask'[u].revision # items[u].revision) =>
            /\ syncTask'[u].outcome = "threw"
            /\ syncTask'[u].pc = "idle"
            /\ itemStore' = itemStore
            /\ indexUpdateQueue' = indexUpdateQueue
            /\ flushTask' = flushTask]_vars

\* a call with a revision the item had before its last save has thrown, no
\* lastSynced entry was written
C28_Witness ==
  /\ syncTask["a"].outcome = "threw"
  /\ syncTask["a"].revision # items["a"].revision
  /\ "a" \notin DOMAIN itemStore.lastSynced

\* the setLastSyncedRevision call of item u resolves in this step
SyncResolves(u) == syncTask[u].pc = "pushed" /\ syncTask'[u].outcome = "ok"

\* nothing is in progress: no call, no write, no push, no flush, no load
Quiescent ==
  /\ \A u \in Uuids : saveTask[u].pc = "idle" /\ syncTask[u].pc = "idle"
  /\ revisionWrites = {}
  /\ indexUpdateQueue = <<>>
  /\ flushTask.pc = "idle"
  /\ itemIndex.load = "idle"

\* the timestamp of lastSynced/<uuid>, 0 when there is no such entry
LastSyncedTimestamp(u) ==
  IF u \in DOMAIN itemStore.lastSynced THEN itemStore.lastSynced[u].timestamp ELSE 0

\* C29: when setLastSyncedRevision(item, r) resolves, getLastSyncedRevision
\* returns r and lastSyncTimestamps reports for the item the timestamp of its
\* lastSynced entry; in every quiescent state lastSyncTimestamps reports for
\* every item the timestamp of its lastSynced entry, 0 when it has none.
C29_LastSyncedAgrees ==
  /\ [](Quiescent =>
          \A u \in DOMAIN IndexSeenNow :
            lastSyncTimestamps(IndexSeenNow)[u] = LastSyncedTimestamp(u))
  /\ [][\A u \in Uuids :
          SyncResolves(u) =>
            /\ getLastSyncedRevision(itemStore', u) = syncTask[u].revision
            /\ u \in DOMAIN IndexSeenNow'
            /\ lastSyncTimestamps(IndexSeenNow')[u] = LastSyncedTimestamp(u)']_vars

\* the lastSyncedAt of every entry of overviewMap is a time, and is 0 for an
\* item that has no lastSynced entry
LastSyncedAtSet(overviewMap) ==
  \A u \in DOMAIN overviewMap :
    /\ overviewMap[u].lastSyncedAt # NullTime
    /\ u \notin DOMAIN itemStore.lastSynced => overviewMap[u].lastSyncedAt = 0

\* the index write of a flush lands in this step
FlushWriteLands ==
  /\ flushTask.pc = "write"
  /\ flushTask'.pc = "idle"
  /\ itemStore'.index = flushTask.data

\* C30: every index entry a flush writes has a lastSyncedAt that is not null,
\* 0 for an item that was never synced: the merge of a flush passes the
\* assertion on lastSyncedAt, the write stores an entry with such a lastSyncedAt for every item of
\* the batch, and an entry of the persisted or of the cached index never has
\* a null lastSyncedAt, whatever is saved or flushed later.
C30_LastSyncedAtNeverNull ==
  /\ [](/\ LastSyncedAtSet(PersistedIndex)
        /\ LastSyncedAtSet(IndexSeenNow)
        /\ flushTask.pc = "merge" =>
             \A entries \in {flushTask.lastSyncEntries,
                              getLastSyncEntries(itemStore,
                                                 updatedItemIds(flushTask.batch))} :
               ~mergeUpdates(flushTask.overviewMap,
                             updatedItemsOf(flushTask.batch, items),
                             lastSyncTimes(entries), 1).threw)
  /\ [][IF FlushWriteLands
        THEN LET written == PersistedIndex'
             IN  /\ \A i \in DOMAIN flushTask.batch :
                      LET u == flushTask.batch[i].uuid
                      IN  /\ u \in DOMAIN written
                          /\ written[u].lastSyncedAt # NullTime
                          /\ u \notin DOMAIN itemStore.lastSynced =>
                               written[u].lastSyncedAt = 0
                 /\ \A u \in DOMAIN PersistedIndex :
                      /\ u \in DOMAIN written
                      /\ written[u].lastSyncedAt # NullTime
        ELSE itemStore'.index = itemStore.index]_vars

\* an item was marked as synced, its index entry has the time, and the entry
\* written for a later save of the item still has it
C30_Witness ==
  /\ "a" \in DOMAIN PersistedIndex
  /\ "a" \in DOMAIN itemStore.lastSynced
  /\ PersistedIndex["a"].lastSyncedAt = 1
  /\ PersistedIndex["a"].updatedAt = 2
  /\ flushTask.pc = "idle"

\* the Store.unlock call in progress can succeed: keys are saved and every one
\* of them is decrypted by the password of the call
UnlockSucceeds ==
  /\ Len(keyStore) > 0
  /\ ~decryptKeys(keyStore, 1, unlockTask.pwd).threw

\* C31: onUnlock is published once when an unlock succeeds and at no other
\* step: an unlock that resolves publishes one event, and an event is published
\* only by an unlock call with keys saved that its password decrypts, after
\* keyAgent.addKey was called for every decrypted key; an unlock that fails
\* (wrong password, no key saved) publishes nothing.
C31_OnUnlockOncePerUnlock ==
  [][/\ onUnlock' # onUnlock =>
          /\ onUnlock' = onUnlock + 1
          /\ unlockTask.pc = "addKeys"
          /\ unlockTask'.outcome = "ok"
          /\ UnlockSucceeds
          /\ Len(unlockTask.keys) = Len(keyStore)
     /\ (unlockTask.pc # "idle" /\ unlockTask'.outcome = "ok") => onUnlock' = onUnlock + 1
     /\ (unlockTask.pc # "idle" /\ unlockTask'.outcome = "failed") => onUnlock' = onUnlock
     /\ (unlockTask.pc = "listKeys" /\ unlockTask' # unlockTask /\ ~UnlockSucceeds) =>
          unlockTask'.outcome = "failed"
     /\ unlockTask'.pc = "addKeys" =>
          \A i \in 1..Len(unlockTask'.keys) :
            /\ unlockTask'.keys[i].id = keyStore[i].identifier
            /\ unlockTask'.pc # unlockTask.pc =>
                 /\ HasKey(agentKeys', unlockTask'.keys[i].id)
                 /\ KeyOf(agentKeys', unlockTask'.keys[i].id) = unlockTask'.keys[i].key
    ]_vars

\* an unlock with the right password has resolved and published once, after an
\* unlock with a wrong password that published nothing
C31_Witness ==
  /\ unlockTask.n = 2
  /\ unlockTask.outcome = "ok"
  /\ onUnlock = 1
  /\ Len(keyStore) = 2

\* the uuids of the entries of overviewMap that are not tombstones
LiveEntries(overviewMap) ==
  { u \in DOMAIN overviewMap : overviewMap[u].typeName # "system.Tombstone" }

\* C32: listItems() returns exactly the items of the OverviewMap's entries
\* that are not tombstones, and with opts.includeTombstones one item for every
\* entry of the OverviewMap.
C32_ListItemsTombstones ==
  [][ListReturns =>
       LET overviewMap == itemIndex'.cached[2]
           listed      == listTask'.result
           expected    == IF listTask'.opts.includeTombstones THEN DOMAIN overviewMap
                          ELSE LiveEntries(overviewMap)
       IN  /\ { item.uuid : item \in listed } = expected
           /\ Cardinality(listed) = Cardinality(expected)
           /\ \A item \in listed :
                /\ item.title = overviewMap[item.uuid].title
                /\ item.typeName = overviewMap[item.uuid].typeName
                /\ item.revision = overviewMap[item.uuid].revision]_vars

\* both ways of listing have returned from an index with a tombstone and a
\* live item: here the one that includes the tombstone
C32_Witness ==
  /\ listTask.outcome = "ok"
  /\ listTask.opts.includeTombstones
  /\ Cardinality(listTask.result) = 2
  /\ \E item \in listTask.result : item.typeName = "system.Tombstone"
  /\ \E item \in listTask.result : item.typeName # "system.Tombstone"

\* the runs of the callback of call id, in order
InvokedFor(id) ==
  SelectSeq(rpcHist.invoked, LAMBDA i : i.id = id)

\* the time by which the reply to the call is due: the timeout given to
\* call(), 5000 ms when none was given
ReplyDue(call) ==
  call.at + (IF call.timeout = NullTime THEN 5000 ELSE call.timeout)

\* the listener takes a reply to a call that has a callback whose timer is set
ReplyInTime ==
  /\ port.replies # <<>>
  /\ port'.replies = Tail(port.replies)
  /\ rpcPending' = rpcPending /\ clock' = clock
  /\ \E t \in timers : t.id = Head(port.replies).id

\* C33: a call with a callback that got no reply within its timeout (5000 ms
\* when none was given) has had its callback run with the timeout error; a
\* reply that arrives before the timeout clears the timer and the callback is
\* run with the reply's err and result.
C33_ReplyOrTimeout ==
  /\ [](\A n \in 1..Len(rpcHist.calls) :
          LET call == rpcHist.calls[n]
              runs == InvokedFor(call.id)
          IN  (/\ call.callback
               /\ clock > ReplyDue(call)
               /\ \A i \in 1..Len(runs) :
                    runs[i].err = "timeout" \/ runs[i].at > ReplyDue(call))
              => \E i \in 1..Len(runs) : runs[i].err = "timeout")
  /\ [][ReplyInTime =>
         LET reply == Head(port.replies)
         IN  /\ \A t \in timers' : t.id # reply.id
             /\ rpcHist'.invoked =
                  Append(rpcHist.invoked, Invoked(reply.id, reply.err, reply.result))]_vars

\* the listener takes a call whose method has a handler
HandledCall ==
  /\ port.calls # <<>>
  /\ port'.calls = Tail(port.calls)
  /\ \E n \in 1..Len(handlers) : handlers[n].method = Head(port.calls).method

\* the first handler registered for the method
HandlerOf(method) ==
  handlers[CHOOSE n \in 1..Len(handlers) :
             /\ handlers[n].method = method
             /\ \A k \in 1..(n - 1) : handlers[k].method # method]

\* C34: for an incoming rpc-call whose method has a handler, exactly one
\* rpc-reply with the call's id is emitted: it carries the return value of a
\* synchronous handler, the exception as err when the handler throws, and
\* else what the asynchronous handler passes to done().
C34_OneReplyPerCall ==
  [][HandledCall =>
       LET call    == Head(port.calls)
           handler == HandlerOf(call.method)
           sent    == SubSeq(rpcHist'.emitted, Len(rpcHist.emitted) + 1,
                             Len(rpcHist'.emitted))
           kept    == doneLater' \ doneLater
       IN  /\ Len(sent) + Cardinality(kept) = 1
           /\ \A i \in 1..Len(sent) : sent[i].id = call.id
           /\ \A done \in kept : done.id = call.id
           /\ handler.callback \in {"return", "done"} =>
                sent = <<rpcReply(call, "null", "v")>>
           /\ handler.callback \in {"throw", "fail"} =>
                sent = <<rpcReply(call, "e", "null")>>]_vars

\* C40: the ids of the calls of an RpcHandler are all different, the callback
\* of a call is run at most once whatever replies and timeouts follow, and it
\* is run for a reply only when the reply has the id of the call.
C40_CallbackAtMostOnce ==
  /\ [](/\ \A i, j \in 1..Len(rpcPending) :
             i # j => rpcPending[i].id # rpcPending[j].id
        /\ \A n \in 1..Len(rpcHist.calls) :
             Len(InvokedFor(rpcHist.calls[n].id)) <= 1)
  /\ [][rpcHist'.invoked # rpcHist.invoked /\ port'.replies # port.replies =>
         /\ Len(rpcHist'.invoked) = Len(rpcHist.invoked) + 1
         /\ rpcHist'.invoked[Len(rpcHist'.invoked)].id = Head(port.replies).id]_vars

\* C36: every revision an entry of the persisted index refers to has its blob
\* persisted under revisions/<revision>, in the states between the steps of
\* saveItem too: the index is never ahead of the revision blobs.
C36_IndexNeverAhead ==
  \A u \in DOMAIN PersistedIndex :
    PersistedIndex[u].revision \in DOMAIN itemStore.revisions

\* C35: the blob persisted under revisions/R is the encrypted ItemRevision
\* whose overview.revision is R, also when saveItem calls on the same Item
\* object interleave, and the revision of every save that was fulfilled has
\* its blob.
C35_BlobUnderOwnRevision ==
  /\ \A revision \in DOMAIN itemStore.revisions :
       PersistedRevision(revision).overview.revision = revision
  /\ \A s \in storeHist.saved : HasRevisionBlob(s.revision)

\* nothing is in progress in the store, and every saveItem call was fulfilled
AllSavedAndSettled ==
  /\ Quiescent
  /\ heldSync.pc = "idle"
  /\ overlapSave.pc = "idle"
  /\ storeHist.calls = Cardinality(storeHist.saved)

\* the last save of item u that was fulfilled
LastSaved(u) ==
  CHOOSE s \in SavedOf(u) : \A other \in SavedOf(u) : other.n <= s.n

\* C37: the index never regresses: after any sequence of saveItem and
\* setLastSyncedRevision calls, one on an older Item object of the item whose
\* own revision is the revision argument included, the index entry of an item
\* carries the revision of the last saveItem that was fulfilled.
C37_IndexNeverRegresses ==
  AllSavedAndSettled =>
    \A u \in Uuids :
      SavedOf(u) # {} =>
        /\ u \in DOMAIN PersistedIndex
        /\ PersistedIndex[u].revision = LastSaved(u).revision

\* C38: whatever the interleaving of two Vault.saveItem calls on different
\* items, once both promises are resolved contents.js has an entry for each of
\* the two items, and it never has more than one entry for a uuid.
C38_BothEntriesKept ==
  /\ (\A u \in Uuids : vaultSave[u].outcome = "resolved") =>
       \A u \in Uuids :
         \E i \in DOMAIN vaultFiles.contents : vaultFiles.contents[i].uuid = u
  /\ \A i, j \in DOMAIN vaultFiles.contents :
       i # j => vaultFiles.contents[i].uuid # vaultFiles.contents[j].uuid

\* C39: the promise of Vault.saveItem always settles: once the steps of the
\* call have come to their end it is resolved, the item file and contents.js
\* having been written, or it is rejected, fetching the content, encrypting,
\* or reading or writing one of the files having failed; it is not left
\* pending.
C39_SaveAlwaysSettles ==
  \A u \in Uuids :
    (/\ vaultSave[u].n > 0
     /\ ChainEnded(vaultSave[u].content)
     /\ ChainEnded(vaultSave[u].contents)) =>
      /\ vaultSave[u].outcome \in {"resolved", "rejected"}
      /\ vaultSave[u].outcome = "resolved" <=>
           (vaultSave[u].content = "done" /\ vaultSave[u].contents = "done")

====
